---- MODULE Spec2Model ----
(***************************************************************************)
(* DocMind-AI backend: the Redis query/answer cache (ragService.js), the   *)
(* session-history store (sessionStore.js), the RAG pipeline runRagQuery   *)
(* and the conversation turn processChat behind POST /api/chat.            *)
(*                                                                         *)
(* Strings are sequences of one-character strings, so that trim() and      *)
(* toLowerCase() are computed.  A Redis key is the concatenation the       *)
(* template literal builds.  Every await of the code is one step of a      *)
(* request: the step is the moment the awaited reply arrives, and it runs  *)
(* the handler up to its next await.  A message carries the number of the  *)
(* request that pushed it (turn), which stands for the identity of the     *)
(* message object: two turns with equal texts stay distinguishable.        *)
(***************************************************************************)
EXTENDS Integers, Sequences, FiniteSets, TLC

(* ------------------------------ bounds -------------------------------- *)
NumProcs == 2
MaxRequests == 3
MaxQueries == 2
MaxTurns == 2
TimeStep == 300
MaxTime == 900
MaxLen == 2
SessionStep == 1800
MaxSessionTime == 5400
MaxSends == 2
MaxResets == 1
MaxArticles == 2

(* ------------------------- program constants -------------------------- *)
VECTOR_SIZE == 2048
OTHER_SIZE == 1536
CACHE_TTL_SECONDS == 600
SESSION_TTL == 3600

Procs == 1..NumProcs

(* ------------------------------ strings ------------------------------- *)
Chars == {"a", "A", "b", " "}

IsSpace(c) == c = " "

ToLowerChar(c) == IF c = "A" THEN "a" ELSE c

ToLowerCase(s) == [i \in 1..Len(s) |-> ToLowerChar(s[i])]

RECURSIVE TrimStart(_)
TrimStart(s) ==
    IF s = <<>> THEN s
    ELSE IF IsSpace(Head(s)) THEN TrimStart(Tail(s)) ELSE s

RECURSIVE TrimEnd(_)
TrimEnd(s) ==
    IF s = <<>> THEN s
    ELSE IF IsSpace(s[Len(s)]) THEN TrimEnd(SubSeq(s, 1, Len(s) - 1)) ELSE s

Trim(s) == TrimEnd(TrimStart(s))

(* JS truthiness of a string or of an absent body field: "" and undefined  *)
(* are both falsy, and both are the empty sequence here.                   *)
Falsy(s) == s = <<>>

(* ------------------------------- keys --------------------------------- *)
GetCachedKey(query) == <<"rag:news:">> \o ToLowerCase(Trim(query))

SetCachedKeyNoTrim(query) == <<"rag:news:">> \o ToLowerCase(query)

SetCachedKey(query) == <<"rag:news:">> \o ToLowerCase(Trim(query))

sessionKeyShared(sessionId) == <<"session:">> \o <<":messages">>

sessionKey(sessionId) == <<"session:">> \o sessionId \o <<":messages">>

(* ------------------------------- JSON --------------------------------- *)
(* The text JSON.stringify produces for a value, and JSON.parse of a text: *)
(* a text that is not JSON makes JSON.parse throw (ParseFails).            *)
JSONStringify(v) == [json |-> TRUE, val |-> v]

ParseFails(raw) == ~raw.json

JSONParse(raw) == raw.val

(* Values that are in Redis without having been written by JSON.stringify  *)
(* of a message list: a text that is not JSON, the text {} and the text    *)
(* null.  JSON.parse gives an object for {} and null for null; neither is  *)
(* an array.  Each is written as a one-element sequence holding a marker,  *)
(* so that it can stand wherever a message list can; IsArray and JSTruthy  *)
(* are Array.isArray and the truthiness of the parsed value.               *)
JSObject == <<[role |-> "{}", content |-> <<>>, turn |-> 0]>>

JSNull == <<[role |-> "null", content |-> <<>>, turn |-> 0]>>

IsArray(v) == v \notin {JSObject, JSNull}

JSTruthy(v) == v # JSNull

NotJSON == [json |-> FALSE, val |-> <<>>]

ForeignValues == {NotJSON, JSONStringify(JSObject), JSONStringify(JSNull)}

(* ------------------------------ inputs -------------------------------- *)
SessionIds == {<<"1">>, <<"2">>, <<" ">>}

GeneratedAnswers == {<<"x">>, <<"y">>}

FallbackAnswer == <<"Sorry - the LLM model is not configured on this machine.">>

ObjectString == <<"[object Object]">>

Point1 == [id |-> 1, score |-> 1, payload |-> <<"doc1">>]

SearchResults == {<<>>, <<Point1>>}

(* ------------------------------- state -------------------------------- *)
VARIABLES
    redis,        \* Redis: key -> [value, at, ttl] for the keys that exist
    now,          \* the clock, in seconds
    redisState,   \* "ready", "broken" (isOpen, commands reject), "closed"
    answerModel,  \* geminiClient.js answerModel: TRUE when initialised
    nreq,         \* number of HTTP requests received so far
    rq,           \* per request slot: position and locals of the handler
    serial,       \* per session: the turns served while turns were serial,
                  \* and the first turn to load after a completed clear
    unit,         \* a direct setCached(q1, data) then getCached(q2), or a
                  \* direct saveSessionHistory(sessionId, messages,
                  \* ttlSeconds) then getSessionHistory(sessionId)
    boot,         \* server.js: the environment of the process and how far
                  \* start() has come
    page,         \* ChatPage.jsx: the state of the component, its requests
                  \* in flight and its timers, and the histories the
                  \* backend holds for the page's sessions
    ingest        \* ingest.js: how far main() has come, the points it has
                  \* built and the points the Qdrant collection holds

vars ==
    <<redis, now, redisState, answerModel, nreq, rq, serial, unit, boot, page,
      ingest>>

NoPayload == [answer |-> <<>>, sources |-> <<>>, cached |-> FALSE]

ErrorBody == [error |-> "Internal server error"]

NoTurns == [ok |-> TRUE, log |-> <<>>, cleared |-> FALSE, quiet |-> FALSE, next |-> 0]

(* config/env.js: which of the variables the process was started with     *)
FullEnv ==
    [GEMINI_API_KEY |-> TRUE, JINA_API_KEY |-> TRUE,
     QDRANT_URL |-> TRUE, REDIS_URL |-> TRUE]

(* no process.exit has been called                                        *)
NoExit == 0 - 1

(* the process after start(): qdrant and gemini say that initQdrant and    *)
(* initGemini have run, code is the status given to process.exit           *)
Listening ==
    [phase |-> "listening", env |-> FullEnv, qdrant |-> TRUE, gemini |-> TRUE,
     code |-> NoExit]

Message(role, content) == [role |-> role, content |-> content]

(* the session ids Math.random can produce, the texts the user types and   *)
(* the answers the backend returns to the page                             *)
PageIds == {<<"1">>, <<"2">>}

PageInputs == {<<"a">>, <<" ">>}

PageAnswers == {<<"x", "y">>, <<>>}

(* no page is open                                                         *)
NoPage ==
    [sessionId |-> <<>>, messages |-> <<>>, input |-> <<>>, loading |-> FALSE,
     error |-> "", sends |-> <<>>, typing |-> <<>>, loads |-> <<>>,
     clears |-> <<>>, backend |-> [id \in PageIds |-> <<>>],
     nsend |-> 0, nreset |-> 0, reset |-> "none", ticks |-> 0]

(* ingest.js before main() is called: the collection holds what an        *)
(* earlier run left, code is the status the process has exited with        *)
NoIngest ==
    [pc |-> "idle", articles |-> 0, previous |-> {}, collection |-> {},
     points |-> <<>>, upserts |-> 0, code |-> NoExit]

NoUnit ==
    [pc |-> "none", q1 |-> <<>>, q2 |-> <<>>, data |-> NoPayload, setAt |-> 0,
     getAt |-> 0, hit |-> FALSE, value |-> NoPayload,
     sessionId |-> <<>>, messages |-> <<>>, ttlSeconds |-> 0, loaded |-> <<>>]

Idle ==
    [pc |-> "idle", kind |-> "none", sessionId |-> <<>>, userMessage |-> <<>>,
     turn |-> 0, history |-> <<>>, vector |-> 0, points |-> <<>>,
     payload |-> NoPayload,
     calls |-> <<>>, args |-> <<>>, fault |-> "none", fail |-> "none",
     status |-> 0, body |-> ErrorBody]

(* redisClient.isOpen: true from connect() until the client is closed      *)
isOpen == redisState # "closed"

(* ------------------------------- Redis -------------------------------- *)
PresentAt(key, t) ==
    /\ key \in DOMAIN redis
    /\ t < redis[key].at + redis[key].ttl

Present(key) == PresentAt(key, now)

RedisSetEx(key, seconds, value) ==
    [k \in DOMAIN redis \cup {key} |->
        IF k = key THEN [value |-> value, at |-> now, ttl |-> seconds]
        ELSE redis[k]]

RedisDel(key) == [k \in DOMAIN redis \ {key} |-> redis[k]]

(* --------------------------- sessionStore.js -------------------------- *)
getSessionTTL == SESSION_TTL

getSessionHistory(sessionId) ==
    LET key == sessionKey(sessionId) IN
    IF ~Present(key) THEN <<>>
    ELSE IF ParseFails(redis[key].value) THEN <<>>
    ELSE JSONParse(redis[key].value)

saveSessionHistoryMerging(sessionId, messages) ==
    RedisSetEx(sessionKey(sessionId), getSessionTTL,
               JSONStringify(getSessionHistory(sessionId) \o
                             SubSeq(messages, Len(messages) - 1, Len(messages))))

saveSessionHistoryKeepTTL(sessionId, messages) ==
    LET key == sessionKey(sessionId) IN
    IF Present(key)
    THEN [redis EXCEPT ![key].value = JSONStringify(messages)]
    ELSE RedisSetEx(key, getSessionTTL, JSONStringify(messages))

saveSessionHistory(sessionId, messages) ==
    RedisSetEx(sessionKey(sessionId), getSessionTTL, JSONStringify(messages))

clearSessionHistoryOther(sessionId) == redis

clearSessionHistory(sessionId) == RedisDel(sessionKey(sessionId))

(* ---------------------------- chatService.js -------------------------- *)
(* (await getSessionHistory(sessionId)) || []                              *)
OrEmpty(value) == IF JSTruthy(value) THEN value ELSE <<>>

(* ---------------------------- ragService.js --------------------------- *)
(* getCached after its redisClient.get has replied: a hit needs a key that *)
(* exists and a text that parses                                           *)
getCachedHit(query) ==
    /\ Present(GetCachedKey(query))
    /\ ~ParseFails(redis[GetCachedKey(query)].value)

getCached(query) == JSONParse(redis[GetCachedKey(query)].value)

setCachedSessionTTL(query, data) ==
    RedisSetEx(SetCachedKey(query), SESSION_TTL, JSONStringify(data))

setCached(query, data) ==
    RedisSetEx(SetCachedKey(query), CACHE_TTL_SECONDS, JSONStringify(data))

buildContextFromPointsNoSentinel(points) ==
    [i \in 1..Len(points) |-> points[i].payload]

(* buildContextFromPoints: the articles' texts, or a fixed sentence        *)
buildContextFromPoints(points) ==
    IF points = <<>> THEN << <<"No relevant articles found.">> >>
    ELSE [i \in 1..Len(points) |-> points[i].payload]

(* what a collaborator is called with: embedTextWithJina(query, ...),      *)
(* searchQdrant(vector of that query, 5), and the query and context that   *)
(* generateAnswerWithGemini puts in its prompt                             *)
QueryArg(r) == [query |-> r.userMessage, context |-> <<>>]

PromptArgWithHistory(r) ==
    [query |-> r.userMessage,
     context |-> buildContextFromPoints(r.points)
                    \o [i \in 1..Len(r.history) |-> r.history[i].content]]

PromptArg(r) ==
    [query |-> r.userMessage, context |-> buildContextFromPoints(r.points)]

(* ----------------------- the handlers, step by step -------------------- *)
(* res.json / res.status(..).json: the request is answered and its locals  *)
(* are dropped                                                             *)
Respond(r, status, body) ==
    [r EXCEPT !.pc = "done", !.status = status, !.body = body,
              !.history = <<>>, !.points = <<>>, !.payload = NoPayload]

(* an await rejects (fault): nothing in chatService or ragService catches  *)
(* it (fail), and the controller's catch answers 500                       *)
Throw(r, where) ==
    Respond([r EXCEPT !.fault = where, !.fail = where], 500, ErrorBody)

ReturnFromRagAnswerFirst(r, payload) ==
    IF r.kind = "query" THEN Respond(r, 200, payload)
    ELSE [r EXCEPT !.pc = "save", !.payload = payload,
                   !.history = SubSeq(@, 1, Len(@) - 1) \o
                               <<[role |-> "assistant",
                                  content |-> payload.answer,
                                  turn |-> r.turn], @[Len(@)]>>]

(* processChat after runRagQuery has returned (steps 4..5), or queryRag's  *)
(* res.json(result)                                                        *)
ReturnFromRag(r, payload) ==
    IF r.kind = "query" THEN Respond(r, 200, payload)
    ELSE [r EXCEPT !.pc = "save", !.payload = payload,
                   !.history = Append(@, [role |-> "assistant",
                                          content |-> payload.answer,
                                          turn |-> r.turn])]

(* runRagQuery steps 6..8, up to the await inside setCached                *)
AfterAnswer(r, answer) ==
    LET sources == [i \in 1..Len(r.points) |->
                        [id |-> r.points[i].id, score |-> r.points[i].score,
                         payload |-> r.points[i].payload]]
        payload == [answer |-> answer, sources |-> sources, cached |-> FALSE]
    IN  IF ~isOpen THEN ReturnFromRag(r, payload)
        ELSE [r EXCEPT !.pc = "setCached", !.payload = payload]

AfterSearchThrowsWithoutModel(r, points) ==
    LET r1 == [r EXCEPT !.points = points] IN
    IF ~answerModel THEN Throw(r1, "generateAnswerWithGemini")
    ELSE [r1 EXCEPT !.pc = "generate", !.calls = Append(@, "generate"),
                    !.args = Append(@, PromptArg(r1))]

(* runRagQuery steps 4..5: the context is built and the generator called;  *)
(* without a model generateAnswerWithGemini returns its fixed message      *)
AfterSearch(r, points) ==
    LET r1 == [r EXCEPT !.points = points] IN
    IF ~answerModel THEN AfterAnswer(r1, FallbackAnswer)
    ELSE [r1 EXCEPT !.pc = "generate", !.calls = Append(@, "generate"),
                    !.args = Append(@, PromptArg(r1))]

CacheHitResultAsStored(cached) == cached

(* a cache hit: { ...cached, cached: true }                                *)
CacheHitResult(cached) == [cached EXCEPT !.cached = TRUE]

(* runRagQuery step 1, up to the first await: getCached gives up at once   *)
(* on a closed client and the embedding request goes out                   *)
StartRagEmbedFirst(r) ==
    [r EXCEPT !.pc = "getCached", !.calls = Append(@, "embed"),
              !.args = Append(@, QueryArg(r))]

StartRag(r) ==
    IF ~isOpen THEN [r EXCEPT !.pc = "embed", !.calls = Append(@, "embed"),
                              !.args = Append(@, QueryArg(r))]
    ELSE [r EXCEPT !.pc = "getCached"]

(* the positions of a turn that has read the stored history                *)
Loaded == {"getCached", "embed", "search", "generate", "setCached", "save"}

(* the turns of a session served one at a time, for as long as no turn of  *)
(* the session has overlapped another, failed, or lost its stored history. *)
(* A clear that completes starts the record again: ok when no turn of the  *)
(* session is in flight, quiet when none of them has read the history; the *)
(* first turn to read the history after it is next.                        *)
Observe(p, r) ==
    IF r.kind \notin {"chat", "clear"} \/ r.status = 400 THEN serial
    ELSE [serial EXCEPT ![r.sessionId] =
            IF r.kind = "clear"
            THEN IF r.pc # "done" THEN @
                 ELSE IF r.status # 200 THEN [@ EXCEPT !.ok = FALSE]
                 ELSE [ok |-> ~\E q \in Procs \ {p} :
                                   /\ rq[q].kind = "chat"
                                   /\ rq[q].pc \notin {"idle", "done"}
                                   /\ rq[q].sessionId = r.sessionId,
                       log |-> <<>>,
                       cleared |-> TRUE,
                       quiet |-> ~\E q \in Procs \ {p} :
                                   /\ rq[q].kind = "chat"
                                   /\ rq[q].pc \in Loaded
                                   /\ rq[q].sessionId = r.sessionId,
                       next |-> 0]
            ELSE IF r.pc = "load"
            THEN [@ EXCEPT !.ok = @ /\ ~\E q \in Procs \ {p} :
                                        /\ rq[q].kind = "chat"
                                        /\ rq[q].pc \notin {"idle", "done"}
                                        /\ rq[q].sessionId = r.sessionId]
            ELSE IF r.fail # "none" THEN [@ EXCEPT !.ok = FALSE]
            ELSE IF r.pc = "done"
            THEN [@ EXCEPT !.log = Append(@, <<r.userMessage, r.body.answer>>)]
            ELSE IF rq[p].pc = "load" /\ @.cleared /\ @.next = 0
            THEN [@ EXCEPT !.next = r.turn]
            ELSE @]

Step(p, r, store) ==
    /\ rq' = [rq EXCEPT ![p] = r]
    /\ redis' = store
    /\ serial' = Observe(p, r)
    /\ UNCHANGED <<now, redisState, answerModel, unit, boot, page, ingest>>

(* Request slots are interchangeable: a new request is served in the first *)
(* slot never used, or else in the first slot whose request was answered   *)
Free(p) ==
    IF \E q \in Procs : rq[q].pc = "idle"
    THEN rq[p].pc = "idle" /\ \A q \in Procs : q < p => rq[q].pc # "idle"
    ELSE rq[p].pc = "done" /\ \A q \in Procs : q < p => rq[q].pc # "done"

(* POST /api/chat: handleChat validates, processChat awaits the history    *)
HandleChat(p, sessionId, userMessage) ==
    /\ Free(p)
    /\ nreq < MaxRequests
    /\ nreq' = nreq + 1
    /\ LET r == [Idle EXCEPT !.kind = "chat", !.sessionId = sessionId,
                             !.userMessage = userMessage, !.turn = nreq + 1]
       IN  IF Falsy(sessionId) \/ Falsy(userMessage) \/ Falsy(Trim(userMessage))
           THEN Step(p, Respond([Idle EXCEPT !.kind = "chat"], 400, ErrorBody), redis)
           ELSE Step(p, [r EXCEPT !.pc = "load"], redis)

(* POST /api/query: queryRag validates and calls runRagQuery               *)
HandleQuery(p, query) ==
    /\ Free(p)
    /\ nreq < MaxQueries
    /\ nreq' = nreq + 1
    /\ LET r == [Idle EXCEPT !.kind = "query", !.userMessage = query,
                             !.turn = nreq + 1]
       IN  IF Falsy(query) \/ Falsy(Trim(query))
           THEN Step(p, Respond([Idle EXCEPT !.kind = "query"], 400, ErrorBody), redis)
           ELSE Step(p, StartRag(r), redis)

ChatLoadSavesUserMessage(p) ==
    /\ rq[p].pc = "load"
    /\ UNCHANGED nreq
    /\ IF redisState # "ready"
       THEN Step(p, Throw(rq[p], "getSessionHistory"), redis)
       ELSE LET loaded == OrEmpty(getSessionHistory(rq[p].sessionId))
                history == Append(loaded, [role |-> "user",
                                           content |-> rq[p].userMessage,
                                           turn |-> rq[p].turn])
            IN  IF ~IsArray(loaded)
                THEN Step(p, Throw(rq[p], "history.push"), redis)
                ELSE Step(p, StartRag([rq[p] EXCEPT !.history = history]),
                          saveSessionHistory(rq[p].sessionId, history))

(* processChat steps 1..3: the history arrives, the user message is pushed *)
(* and runRagQuery starts                                                  *)
ChatLoad(p) ==
    /\ rq[p].pc = "load"
    /\ UNCHANGED nreq
    /\ IF redisState # "ready"
       THEN Step(p, Throw(rq[p], "getSessionHistory"), redis)
       ELSE LET loaded == OrEmpty(getSessionHistory(rq[p].sessionId))
                history == Append(loaded, [role |-> "user",
                                           content |-> rq[p].userMessage,
                                           turn |-> rq[p].turn])
            IN  IF ~IsArray(loaded)
                THEN Step(p, Throw(rq[p], "history.push"), redis)
                ELSE Step(p, StartRag([rq[p] EXCEPT !.history = history]), redis)

RagLookupTouches(p) ==
    /\ rq[p].pc = "getCached"
    /\ UNCHANGED nreq
    /\ IF redisState # "ready"
       THEN Step(p, Throw(rq[p], "getCached"), redis)
       ELSE IF getCachedHit(rq[p].userMessage)
       THEN Step(p, ReturnFromRag(rq[p],
                        CacheHitResult(getCached(rq[p].userMessage))),
                 RedisSetEx(GetCachedKey(rq[p].userMessage), CACHE_TTL_SECONDS,
                            redis[GetCachedKey(rq[p].userMessage)].value))
       ELSE Step(p, [rq[p] EXCEPT !.pc = "embed",
                                  !.calls = Append(@, "embed"),
                                  !.args = Append(@, QueryArg(rq[p]))], redis)

RagLookupThrowsOnMalformed(p) ==
    /\ rq[p].pc = "getCached"
    /\ UNCHANGED nreq
    /\ IF redisState # "ready"
       THEN Step(p, Throw(rq[p], "getCached"), redis)
       ELSE IF Present(GetCachedKey(rq[p].userMessage))
               /\ ParseFails(redis[GetCachedKey(rq[p].userMessage)].value)
       THEN Step(p, Throw(rq[p], "getCached"), redis)
       ELSE IF getCachedHit(rq[p].userMessage)
       THEN Step(p, ReturnFromRag(rq[p],
                        CacheHitResult(getCached(rq[p].userMessage))), redis)
       ELSE Step(p, [rq[p] EXCEPT !.pc = "embed",
                                  !.calls = Append(@, "embed"),
                                  !.args = Append(@, QueryArg(rq[p]))], redis)

(* the reply of redisClient.get inside getCached                           *)
RagLookup(p) ==
    /\ rq[p].pc = "getCached"
    /\ UNCHANGED nreq
    /\ IF redisState # "ready"
       THEN Step(p, Throw(rq[p], "getCached"), redis)
       ELSE IF getCachedHit(rq[p].userMessage)
       THEN Step(p, ReturnFromRag(rq[p],
                        CacheHitResult(getCached(rq[p].userMessage))), redis)
       ELSE Step(p, [rq[p] EXCEPT !.pc = "embed",
                                  !.calls = Append(@, "embed"),
                                  !.args = Append(@, QueryArg(rq[p]))], redis)

EmbedPersistsUserMessage(p, ok) ==
    /\ rq[p].pc = "embed"
    /\ UNCHANGED nreq
    /\ IF ~ok
       THEN Step(p, Throw(rq[p], "embedTextWithJina"),
                 IF rq[p].kind = "chat"
                 THEN saveSessionHistory(rq[p].sessionId, rq[p].history)
                 ELSE redis)
       ELSE Step(p, [rq[p] EXCEPT !.pc = "search", !.vector = VECTOR_SIZE,
                                  !.calls = Append(@, "search"),
                                  !.args = Append(@, QueryArg(rq[p]))], redis)

(* the reply of embedTextWithJina; searchQdrant is called with the vector  *)
Embed(p, ok) ==
    /\ rq[p].pc = "embed"
    /\ UNCHANGED nreq
    /\ IF ~ok THEN Step(p, Throw(rq[p], "embedTextWithJina"), redis)
       ELSE Step(p, [rq[p] EXCEPT !.pc = "search", !.vector = VECTOR_SIZE,
                                  !.calls = Append(@, "search"),
                                  !.args = Append(@, QueryArg(rq[p]))], redis)

(* embedTextWithJina returns an embedding whose length is not the size of  *)
(* the collection; runRagQuery hands it to searchQdrant as it is           *)
EmbedOther(p) ==
    /\ rq[p].pc = "embed"
    /\ UNCHANGED nreq
    /\ Step(p, [rq[p] EXCEPT !.pc = "search", !.vector = OTHER_SIZE,
                             !.calls = Append(@, "search"),
                             !.args = Append(@, QueryArg(rq[p]))], redis)

(* the positions at which a request awaits the reply of a collaborator     *)
Awaits == {"load", "getCached", "embed", "search", "generate", "setCached", "save"}

(* the time limit in milliseconds that the code sets on the call awaited   *)
(* at a position, 0 when it sets none: axios.post in embedTextWithJina is  *)
(* the only call that is given one                                         *)
TimeoutOf(pc) == IF pc = "embed" THEN 20000 ELSE 0

(* the time limit of an awaited call runs out before its reply: the call   *)
(* rejects                                                                 *)
CallTimeout(p) ==
    /\ rq[p].pc \in Awaits
    /\ TimeoutOf(rq[p].pc) > 0
    /\ UNCHANGED nreq
    /\ Step(p, Throw(rq[p], "embedTextWithJina"), redis)

(* the reply of searchQdrant                                               *)
Search(p, ok, points) ==
    /\ rq[p].pc = "search"
    /\ UNCHANGED nreq
    /\ IF ~ok THEN Step(p, Throw(rq[p], "searchQdrant"), redis)
       ELSE Step(p, AfterSearch(rq[p], points), redis)

(* the reply of answerModel.generateContent: it rejects, or it resolves    *)
(* with a response whose text() throws, or with a text                     *)
GenerateOutcomes == {"reject", "textThrows", "text"}

Generate(p, outcome, text) ==
    /\ rq[p].pc = "generate"
    /\ UNCHANGED nreq
    /\ IF outcome = "reject"
       THEN Step(p, Throw(rq[p], "generateAnswerWithGemini"), redis)
       ELSE IF outcome = "textThrows"
       THEN Step(p, AfterAnswer([rq[p] EXCEPT !.fault = "generateAnswerWithGemini"],
                                ObjectString), redis)
       ELSE Step(p, AfterAnswer(rq[p], text), redis)

RagStorePerSession(p) ==
    /\ rq[p].pc = "setCached"
    /\ UNCHANGED nreq
    /\ IF redisState # "ready"
       THEN Step(p, Throw(rq[p], "setCached"), redis)
       ELSE Step(p, ReturnFromRag(rq[p], rq[p].payload),
                 setCached(rq[p].sessionId \o rq[p].userMessage, rq[p].payload))

RagStoreFirstWins(p) ==
    /\ rq[p].pc = "setCached"
    /\ UNCHANGED nreq
    /\ IF redisState # "ready"
       THEN Step(p, Throw(rq[p], "setCached"), redis)
       ELSE Step(p, ReturnFromRag(rq[p], rq[p].payload),
                 IF Present(SetCachedKey(rq[p].userMessage)) THEN redis
                 ELSE setCached(rq[p].userMessage, rq[p].payload))

(* the reply of redisClient.setEx inside setCached                         *)
RagStore(p) ==
    /\ rq[p].pc = "setCached"
    /\ UNCHANGED nreq
    /\ IF redisState # "ready"
       THEN Step(p, Throw(rq[p], "setCached"), redis)
       ELSE Step(p, ReturnFromRag(rq[p], rq[p].payload),
                 setCached(rq[p].userMessage, rq[p].payload))

ChatSaveOwnTurnWhenCleared(p) ==
    /\ rq[p].pc = "save"
    /\ UNCHANGED nreq
    /\ IF redisState # "ready"
       THEN Step(p, Throw(rq[p], "saveSessionHistory"), redis)
       ELSE Step(p, Respond(rq[p], 200,
                        [sessionId |-> rq[p].sessionId,
                         answer |-> rq[p].payload.answer,
                         history |-> rq[p].history,
                         sources |-> rq[p].payload.sources,
                         cached |-> rq[p].payload.cached]),
                 saveSessionHistory(rq[p].sessionId,
                     IF Present(sessionKey(rq[p].sessionId)) THEN rq[p].history
                     ELSE SubSeq(rq[p].history, Len(rq[p].history) - 1,
                                 Len(rq[p].history))))

ChatSaveLastTurnOnly(p) ==
    /\ rq[p].pc = "save"
    /\ UNCHANGED nreq
    /\ IF redisState # "ready"
       THEN Step(p, Throw(rq[p], "saveSessionHistory"), redis)
       ELSE Step(p, Respond(rq[p], 200,
                        [sessionId |-> rq[p].sessionId,
                         answer |-> rq[p].payload.answer,
                         history |-> rq[p].history,
                         sources |-> rq[p].payload.sources,
                         cached |-> rq[p].payload.cached]),
                 saveSessionHistory(rq[p].sessionId,
                     SubSeq(rq[p].history, Len(rq[p].history) - 1,
                            Len(rq[p].history))))

(* the reply of redisClient.setEx inside saveSessionHistory; processChat   *)
(* returns and handleChat answers                                          *)
ChatSave(p) ==
    /\ rq[p].pc = "save"
    /\ UNCHANGED nreq
    /\ IF redisState # "ready"
       THEN Step(p, Throw(rq[p], "saveSessionHistory"), redis)
       ELSE Step(p, Respond(rq[p], 200,
                        [sessionId |-> rq[p].sessionId,
                         answer |-> rq[p].payload.answer,
                         history |-> rq[p].history,
                         sources |-> rq[p].payload.sources,
                         cached |-> rq[p].payload.cached]),
                 saveSessionHistory(rq[p].sessionId, rq[p].history))

(* GET /api/session/:id/history: getHistory awaits getSessionHistory      *)
HandleHistory(p, sessionId) ==
    /\ Free(p)
    /\ nreq < MaxRequests
    /\ nreq' = nreq + 1
    /\ Step(p, [Idle EXCEPT !.kind = "history", !.sessionId = sessionId,
                            !.pc = "history"], redis)

HistoryReply(p) ==
    /\ rq[p].pc = "history"
    /\ UNCHANGED nreq
    /\ IF redisState # "ready"
       THEN Step(p, Throw(rq[p], "getSessionHistory"), redis)
       ELSE Step(p, Respond(rq[p], 200,
                        [sessionId |-> rq[p].sessionId,
                         history |->
                             OrEmpty(getSessionHistory(rq[p].sessionId))]),
                 redis)

(* POST /api/session/:id/clear: clearHistory awaits clearSessionHistory    *)
HandleClear(p, sessionId) ==
    /\ Free(p)
    /\ nreq < MaxRequests
    /\ nreq' = nreq + 1
    /\ Step(p, [Idle EXCEPT !.kind = "clear", !.sessionId = sessionId,
                            !.pc = "clear"], redis)

ClearReplyReportsDeleted(p) ==
    /\ rq[p].pc = "clear"
    /\ UNCHANGED nreq
    /\ IF redisState # "ready"
       THEN Step(p, Throw(rq[p], "clearSessionHistory"), redis)
       ELSE Step(p, Respond(rq[p], 200,
                        [sessionId |-> rq[p].sessionId,
                         cleared |-> sessionKey(rq[p].sessionId) \in DOMAIN redis]),
                 clearSessionHistory(rq[p].sessionId))

ClearReply(p) ==
    /\ rq[p].pc = "clear"
    /\ UNCHANGED nreq
    /\ IF redisState # "ready"
       THEN Step(p, Throw(rq[p], "clearSessionHistory"), redis)
       ELSE Step(p, Respond(rq[p], 200,
                        [sessionId |-> rq[p].sessionId, cleared |-> TRUE]),
                 clearSessionHistory(rq[p].sessionId))

(* setCached(q1, data) and then getCached(q2), called directly            *)
UnitSetCached ==
    /\ unit.pc = "set"
    /\ redisState = "ready"
    /\ redis' = setCached(unit.q1, unit.data)
    /\ unit' = [unit EXCEPT !.pc = "get", !.setAt = now]
    /\ UNCHANGED <<now, redisState, answerModel, nreq, rq, serial, boot, page, ingest>>

UnitGetCached ==
    /\ unit.pc = "get"
    /\ redisState = "ready"
    /\ unit' = [unit EXCEPT !.pc = "done", !.getAt = now,
                            !.hit = getCachedHit(unit.q2),
                            !.value = IF getCachedHit(unit.q2)
                                      THEN getCached(unit.q2) ELSE NoPayload]
    /\ UNCHANGED <<redis, now, redisState, answerModel, nreq, rq, serial, boot, page, ingest>>

(* saveSessionHistory(sessionId, messages, ttlSeconds) and then            *)
(* getSessionHistory(sessionId), called directly: the function declares    *)
(* two parameters, so the third argument is dropped                        *)
UnitSaveHistory ==
    /\ unit.pc = "save"
    /\ redisState = "ready"
    /\ redis' = saveSessionHistory(unit.sessionId, unit.messages)
    /\ unit' = [unit EXCEPT !.pc = "load", !.setAt = now]
    /\ UNCHANGED <<now, redisState, answerModel, nreq, rq, serial, boot, page, ingest>>

UnitGetHistory ==
    /\ unit.pc = "load"
    /\ redisState = "ready"
    /\ unit' = [unit EXCEPT !.pc = "loaded", !.getAt = now,
                            !.loaded = getSessionHistory(unit.sessionId)]
    /\ UNCHANGED <<redis, now, redisState, answerModel, nreq, rq, serial, boot, page, ingest>>

(* ------------------------------ server.js ----------------------------- *)
(* start(): initClients awaits initRedis, i.e. redisClient.connect() at    *)
(* REDIS_URL or at its localhost default                                   *)
Start ==
    /\ boot.phase = "init"
    /\ boot' = [boot EXCEPT !.phase = "connecting"]
    /\ UNCHANGED <<redis, now, redisState, answerModel, nreq, rq, serial, unit, page, ingest>>

(* connect() resolves: initQdrant builds its client for QDRANT_URL or its  *)
(* localhost default, initGemini creates the model when GEMINI_API_KEY is  *)
(* set, and app.listen opens the port. connect() rejects: start() logs     *)
(* the error and calls process.exit(1)                                     *)
InitClientsReplyListensAnyway(ok) ==
    /\ boot.phase = "connecting"
    /\ boot' = [boot EXCEPT !.phase = "listening", !.qdrant = ok, !.gemini = ok]
    /\ redisState' = IF ok THEN "ready" ELSE redisState
    /\ answerModel' = (ok /\ boot.env.GEMINI_API_KEY)
    /\ UNCHANGED <<redis, now, nreq, rq, serial, unit, page, ingest>>

InitClientsReply(ok) ==
    /\ boot.phase = "connecting"
    /\ boot' = [boot EXCEPT !.phase = IF ok THEN "listening" ELSE "exited",
                            !.qdrant = ok, !.gemini = ok,
                            !.code = IF ok THEN NoExit ELSE 1]
    /\ redisState' = IF ok THEN "ready" ELSE redisState
    /\ answerModel' = (ok /\ boot.env.GEMINI_API_KEY)
    /\ UNCHANGED <<redis, now, nreq, rq, serial, unit, page, ingest>>

(* a request reaches the handlers once the port is open                    *)
QueryWhenListening(p, query) ==
    /\ boot.phase = "listening"
    /\ HandleQuery(p, query)

(* embedTextWithJina throws at once when JINA_API_KEY is not set           *)
EmbedWithKey(p, ok) ==
    /\ ok => boot.env.JINA_API_KEY
    /\ Embed(p, ok)

(* ----------------------------- ChatPage.jsx --------------------------- *)
PageStep(pg) ==
    /\ page' = pg
    /\ UNCHANGED <<redis, now, redisState, answerModel, nreq, rq, serial, unit, boot, ingest>>

Without(seq, i) == SubSeq(seq, 1, i - 1) \o SubSeq(seq, i + 1, Len(seq))

(* onChange of the input: setInput(e.target.value)                         *)
ChangeInput(text) ==
    /\ page.sessionId # <<>>
    /\ text # page.input
    /\ PageStep([page EXCEPT !.input = text])

SendDisabledWhenBlank == Falsy(Trim(page.input))

(* the Send button: disabled={loading || !input.trim()}; a form whose      *)
(* submit button is disabled is not submitted                              *)
SendDisabled == page.loading \/ Falsy(Trim(page.input))

(* handleSend up to its fetch: the closure keeps previous and optimistic   *)
HandleSend ==
    /\ ~SendDisabled
    /\ page.nsend < MaxSends
    /\ ~(Falsy(Trim(page.input)) \/ Falsy(page.sessionId))
    /\ LET previous == page.messages
           optimistic == Append(page.messages, Message("user", page.input))
       IN  PageStep([page EXCEPT
               !.error = "", !.loading = TRUE, !.messages = optimistic,
               !.sends = Append(@, [previous |-> previous,
                                    optimistic |-> optimistic,
                                    sessionId |-> page.sessionId,
                                    userMessage |-> page.input]),
               !.nsend = @ + 1, !.reset = "none"])

SendFailedKeepsOptimistic(pg, send, text) ==
    [pg EXCEPT !.messages = send.optimistic, !.error = text, !.loading = FALSE]

(* the response is not OK, or fetch or res.json() rejects: setMessages(    *)
(* previous), setError, setLoading(false)                                  *)
SendFailed(pg, send, text) ==
    [pg EXCEPT !.messages = send.previous, !.error = text, !.loading = FALSE]

(* handleSend after an OK response with body data: the history is shown    *)
(* at once unless it ends with an assistant message, whose text is then    *)
(* typed: typedBot starts empty and typeNextChar runs once at once         *)
SendSucceeded(pg, send, data) ==
    LET fullHistory == IF data.history # <<>> THEN data.history
                       ELSE send.optimistic
        lastBot == fullHistory[Len(fullHistory)]
        fullText == lastBot.content
    IN  IF lastBot.role # "assistant"
        THEN [pg EXCEPT !.messages = fullHistory, !.loading = FALSE]
        ELSE IF Len(fullText) = 0
        THEN [pg EXCEPT !.messages = fullHistory, !.input = <<>>,
                        !.loading = FALSE]
        ELSE [pg EXCEPT
                !.messages = Append(send.optimistic,
                                    Message("assistant", SubSeq(fullText, 1, 1))),
                !.typing = Append(@, [optimistic |-> send.optimistic,
                                      fullHistory |-> fullHistory,
                                      fullText |-> fullText,
                                      index |-> 1, ticks |-> 0]),
                !.input = <<>>, !.loading = FALSE]

(* the reply to the fetch of POST /api/chat; on 200 processChat has        *)
(* appended the turn to the session's stored history and returns it        *)
SendOutcomes == {"ok", "notOk", "networkError"}

SendReply(i, outcome, answer) ==
    /\ i \in 1..Len(page.sends)
    /\ LET send == page.sends[i]
           pg == [page EXCEPT !.sends = Without(@, i)]
           history == page.backend[send.sessionId] \o
                          <<Message("user", send.userMessage),
                            Message("assistant", answer)>>
       IN  IF outcome = "notOk"
           THEN PageStep(SendFailed(pg, send, "Something went wrong."))
           ELSE IF outcome = "networkError"
           THEN PageStep(SendFailed(pg, send, "Network error."))
           ELSE PageStep(SendSucceeded(
                    [pg EXCEPT !.backend[send.sessionId] = history],
                    send, [history |-> history]))

typeNextCharKeepsTyped(j) ==
    /\ j \in 1..Len(page.typing)
    /\ LET t == page.typing[j] IN
       IF t.index < Len(t.fullText)
       THEN PageStep([page EXCEPT
                !.messages = Append(t.optimistic,
                    Message("assistant", SubSeq(t.fullText, 1, t.index + 1))),
                !.typing[j].index = t.index + 1,
                !.typing[j].ticks = t.ticks + 1])
       ELSE PageStep([page EXCEPT
                !.messages = Append(t.optimistic,
                                    Message("assistant", t.fullText)),
                !.typing = Without(@, j),
                !.ticks = t.ticks + 1])

(* a 5 ms timer of the typing effect fires: typeNextChar adds the next     *)
(* character of the reply, or, past the last one, shows the full history   *)
typeNextChar(j) ==
    /\ j \in 1..Len(page.typing)
    /\ LET t == page.typing[j] IN
       IF t.index < Len(t.fullText)
       THEN PageStep([page EXCEPT
                !.messages = Append(t.optimistic,
                    Message("assistant", SubSeq(t.fullText, 1, t.index + 1))),
                !.typing[j].index = t.index + 1,
                !.typing[j].ticks = t.ticks + 1])
       ELSE PageStep([page EXCEPT !.messages = t.fullHistory,
                                  !.typing = Without(@, j),
                                  !.ticks = t.ticks + 1])

(* handleResetSession up to its fetch of POST /api/session/:id/clear       *)
HandleResetSession ==
    /\ page.sessionId # <<>>
    /\ page.nreset < MaxResets
    /\ PageStep([page EXCEPT !.clears = Append(@, page.sessionId),
                             !.nreset = @ + 1])

(* the fetch settles, with the session cleared on the backend or with a    *)
(* failure that is only logged; the page takes a new random id and empties *)
(* its list                                                                *)
ResetReply(k, cleared, newId) ==
    /\ k \in 1..Len(page.clears)
    /\ PageStep([page EXCEPT
            !.clears = Without(@, k),
            !.backend[page.clears[k]] = IF cleared THEN <<>> ELSE @,
            !.sessionId = newId, !.messages = <<>>, !.error = "",
            !.reset = IF cleared THEN "cleared" ELSE "uncleared"])

(* the reply to fetchHistory: setMessages(data.history || []) when OK      *)
FetchHistoryReply(k, ok) ==
    /\ k \in 1..Len(page.loads)
    /\ PageStep([page EXCEPT
            !.loads = Without(@, k),
            !.messages = IF ok THEN page.backend[page.loads[k]] ELSE @])

(* ----------------------------- environment ---------------------------- *)
(* the Redis connection drops or comes back while the client stays open    *)
RedisFlap ==
    /\ redisState \in {"ready", "broken"}
    /\ redisState' = IF redisState = "ready" THEN "broken" ELSE "ready"
    /\ UNCHANGED <<redis, now, answerModel, nreq, rq, serial, unit, boot, page, ingest>>

(* another client of the same Redis sets a session's key to a value that   *)
(* is not the JSON text of a message list                                  *)
ForeignWrite(sessionId, raw) ==
    /\ redisState = "ready"
    /\ redis' = RedisSetEx(sessionKey(sessionId), SESSION_TTL, raw)
    /\ serial' = [serial EXCEPT ![sessionId].ok = FALSE,
                                ![sessionId].quiet = FALSE]
    /\ UNCHANGED <<now, redisState, answerModel, nreq, rq, unit, boot, page, ingest>>

(* another client of the same Redis sets the cache key of a query to a     *)
(* text that is not JSON, while no request is being served                 *)
ForeignCacheWrite(query) ==
    /\ redisState = "ready"
    /\ \A p \in Procs : rq[p].pc \in {"idle", "done"}
    /\ redis' = RedisSetEx(GetCachedKey(query), CACHE_TTL_SECONDS, NotJSON)
    /\ UNCHANGED <<now, redisState, answerModel, nreq, rq, serial, unit, boot, page, ingest>>

(* time passes; a key whose time to live has run out no longer exists      *)
Tick ==
    /\ now + TimeStep <= MaxTime
    /\ now' = now + TimeStep
    /\ serial' = [s \in SessionIds |->
                    IF Present(sessionKey(s)) /\ ~PresentAt(sessionKey(s), now')
                    THEN [serial[s] EXCEPT !.ok = FALSE] ELSE serial[s]]
    /\ UNCHANGED <<redis, redisState, answerModel, nreq, rq, unit, boot, page, ingest>>

(* time passes on the scale of a session's time to live                   *)
Wait ==
    /\ now + SessionStep <= MaxSessionTime
    /\ now' = now + SessionStep
    /\ serial' = [s \in SessionIds |->
                    IF Present(sessionKey(s)) /\ ~PresentAt(sessionKey(s), now')
                    THEN [serial[s] EXCEPT !.ok = FALSE] ELSE serial[s]]
    /\ UNCHANGED <<redis, redisState, answerModel, nreq, rq, unit, boot, page, ingest>>

(* --------------------------- specifications --------------------------- *)
(* after start(): connect() has succeeded, or the client was never opened  *)
(* (ragService used without initRedis); initGemini has run                 *)
Init ==
    /\ redis = <<>>
    /\ now = 0
    /\ ingest = NoIngest
    /\ redisState \in {"ready", "closed"}
    /\ answerModel \in BOOLEAN
    /\ nreq = 0
    /\ rq = [p \in Procs |-> Idle]
    /\ serial = [s \in SessionIds |-> NoTurns]
    /\ boot = Listening
    /\ page = NoPage
    /\ unit = NoUnit

(* the steps of runRagQuery and the faults of its collaborators            *)
RagSteps ==
    \/ \E p \in Procs : RagLookup(p)
    \/ \E p \in Procs, ok \in BOOLEAN : Embed(p, ok)
    \/ \E p \in Procs, ok \in BOOLEAN, points \in SearchResults : Search(p, ok, points)
    \/ \E p \in Procs, o \in GenerateOutcomes, t \in GeneratedAnswers : Generate(p, o, t)
    \/ \E p \in Procs : RagStore(p)

(* the chat API on one session                                             *)
ChatSession == <<"1">>

ChatMessages == {<<"a">>, <<" ", "A">>, <<" ">>}

(* runRagQuery inside a turn: each collaborator replies or fails          *)
ChatRagSteps ==
    \/ \E p \in Procs : RagLookup(p)
    \/ \E p \in Procs, ok \in BOOLEAN : Embed(p, ok)
    \/ \E p \in Procs, ok \in BOOLEAN : Search(p, ok, <<Point1>>)
    \/ \E p \in Procs, o \in {"reject", "text"}, t \in GeneratedAnswers :
          Generate(p, o, t)
    \/ \E p \in Procs : RagStore(p)

NextChat ==
    \/ \E p \in Procs, m \in ChatMessages : HandleChat(p, ChatSession, m)
    \/ \E p \in Procs : HandleClear(p, ChatSession)
    \/ \E p \in Procs : ChatLoad(p)
    \/ \E p \in Procs : ChatSave(p)
    \/ \E p \in Procs : ClearReply(p)
    \/ ChatRagSteps

(* the server is up: start() has connected the Redis client and           *)
(* initGemini has created the model                                        *)
InitChat == Init /\ redisState = "ready" /\ answerModel

SpecChat == InitChat /\ [][NextChat]_vars

(* the query API: runRagQuery, the cache and its expiry                    *)
RagQueries == {<<"a">>, <<" ", "A">>, <<" ">>}

NextRag ==
    \/ \E p \in Procs, q \in RagQueries : HandleQuery(p, q)
    \/ RagSteps
    \/ RedisFlap
    \/ Tick

SpecRag == Init /\ [][NextRag]_vars

(* the query API over a cache that another client can write to             *)
MalformedQueries == {<<"a">>, <<" ", "A">>}

NextMalformed ==
    \/ \E p \in Procs, q \in MalformedQueries : HandleQuery(p, q)
    \/ \E q \in MalformedQueries : ForeignCacheWrite(q)
    \/ RagSteps
    \/ Tick

SpecMalformed == InitChat /\ [][NextMalformed]_vars

(* setCached and getCached as functions of the raw query                   *)
Strings == UNION {[1..n -> Chars] : n \in 0..MaxLen}

UnitData ==
    {[answer |-> a, sources |-> <<>>, cached |-> FALSE] : a \in GeneratedAnswers}

InitCache ==
    /\ redis = <<>>
    /\ now = 0
    /\ ingest = NoIngest
    /\ redisState = "ready"
    /\ answerModel = TRUE
    /\ nreq = 0
    /\ rq = [p \in Procs |-> Idle]
    /\ serial = [s \in SessionIds |-> NoTurns]
    /\ boot = Listening
    /\ page = NoPage
    /\ \E q1 \in Strings, q2 \in Strings, data \in UnitData :
          unit = [NoUnit EXCEPT !.pc = "set", !.q1 = q1, !.q2 = q2, !.data = data]

NextCache ==
    \/ UnitSetCached
    \/ UnitGetCached
    \/ Tick

SpecCache == InitCache /\ [][NextCache]_vars

(* saveSessionHistory and getSessionHistory as functions of their         *)
(* arguments, over a key that is absent or holds an earlier list           *)
UnitMessages ==
    {<<>>,
     <<[role |-> "user", content |-> <<"a">>, turn |-> 0]>>,
     <<[role |-> "user", content |-> <<"b">>, turn |-> 0],
       [role |-> "assistant", content |-> <<"x">>, turn |-> 0]>>}

UnitTTLs == {SESSION_TTL, CACHE_TTL_SECONDS}

InitStore ==
    /\ now = 0
    /\ ingest = NoIngest
    /\ redisState = "ready"
    /\ answerModel = TRUE
    /\ nreq = 0
    /\ rq = [p \in Procs |-> Idle]
    /\ serial = [s \in SessionIds |-> NoTurns]
    /\ boot = Listening
    /\ page = NoPage
    /\ \E s \in SessionIds, m \in UnitMessages, t \in UnitTTLs,
          old \in UnitMessages :
          /\ unit = [NoUnit EXCEPT !.pc = "save", !.sessionId = s,
                                   !.messages = m, !.ttlSeconds = t]
          /\ redis = IF old = <<>> THEN <<>>
                     ELSE [k \in {sessionKey(s)} |->
                              [value |-> JSONStringify(old), at |-> 0,
                               ttl |-> SESSION_TTL]]

NextStore ==
    \/ UnitSaveHistory
    \/ UnitGetHistory
    \/ Tick

SpecStore == InitStore /\ [][NextStore]_vars

(* runRagQuery inside a turn whose collaborators all reply                 *)
SteadyRagSteps ==
    \/ \E p \in Procs : RagLookup(p)
    \/ \E p \in Procs : Embed(p, TRUE)
    \/ \E p \in Procs : Search(p, TRUE, <<Point1>>)
    \/ \E p \in Procs : Generate(p, "text", <<"x">>)
    \/ \E p \in Procs : RagStore(p)

(* a conversation in one session while time passes                        *)
NextTTL ==
    \/ \E p \in Procs : HandleChat(p, ChatSession, <<"a">>)
    \/ \E p \in Procs : ChatLoad(p)
    \/ \E p \in Procs : ChatSave(p)
    \/ SteadyRagSteps
    \/ Wait

SpecTTL == InitChat /\ [][NextTTL]_vars

(* turns, history reads and clears of two sessions, interleaved            *)
IsoSessions == {<<"1">>, <<"2">>}

NextIso ==
    \/ \E p \in Procs, s \in IsoSessions : HandleChat(p, s, <<"a">>)
    \/ \E p \in Procs, s \in IsoSessions : HandleHistory(p, s)
    \/ \E p \in Procs, s \in IsoSessions : HandleClear(p, s)
    \/ \E p \in Procs : ChatLoad(p)
    \/ \E p \in Procs : ChatSave(p)
    \/ \E p \in Procs : HistoryReply(p)
    \/ \E p \in Procs : ClearReply(p)
    \/ SteadyRagSteps

SpecIso == InitChat /\ [][NextIso]_vars

(* turns of two sessions that ask the same question in different words    *)
ShareMessages == {<<"a">>, <<"A">>}

TurnOfFew(p, sessionId, userMessage) ==
    /\ nreq < MaxTurns
    /\ HandleChat(p, sessionId, userMessage)

NextShare ==
    \/ \E p \in Procs, s \in IsoSessions, m \in ShareMessages : TurnOfFew(p, s, m)
    \/ \E p \in Procs : ChatLoad(p)
    \/ \E p \in Procs : ChatSave(p)
    \/ \E p \in Procs : RagLookup(p)
    \/ \E p \in Procs : Embed(p, TRUE)
    \/ \E p \in Procs : Search(p, TRUE, <<Point1>>)
    \/ \E p \in Procs, t \in GeneratedAnswers : Generate(p, "text", t)
    \/ \E p \in Procs : RagStore(p)

SpecShare == InitChat /\ [][NextShare]_vars

(* turns of one session that ask different questions and the same one      *)
PromptMessages == {<<"a">>, <<"b">>}

NextPrompt ==
    \/ \E p \in Procs, m \in PromptMessages : HandleChat(p, ChatSession, m)
    \/ \E p \in Procs : ChatLoad(p)
    \/ \E p \in Procs : ChatSave(p)
    \/ \E p \in Procs : RagLookup(p)
    \/ \E p \in Procs : Embed(p, TRUE)
    \/ \E p \in Procs, points \in SearchResults : Search(p, TRUE, points)
    \/ \E p \in Procs : Generate(p, "text", <<"x">>)
    \/ \E p \in Procs : RagStore(p)

SpecPrompt == InitChat /\ [][NextPrompt]_vars

(* turns whose collaborators reply when they please, if at all: the only  *)
(* steps that are sure to happen are those of the program's own timers     *)
WaitSessions == {ChatSession, <<>>}

WaitMessages == {<<"a">>, <<" ">>}

NextWait ==
    \/ \E p \in Procs, s \in WaitSessions, m \in WaitMessages : HandleChat(p, s, m)
    \/ \E p \in Procs : ChatLoad(p)
    \/ \E p \in Procs : ChatSave(p)
    \/ SteadyRagSteps
    \/ \E p \in Procs : CallTimeout(p)

SpecWait ==
    InitChat /\ [][NextWait]_vars /\ WF_vars(\E p \in Procs : CallTimeout(p))

(* the process from start(): any of the variables may be missing          *)
Envs ==
    [GEMINI_API_KEY : BOOLEAN, JINA_API_KEY : BOOLEAN,
     QDRANT_URL : BOOLEAN, REDIS_URL : BOOLEAN]

InitBoot ==
    /\ redis = <<>>
    /\ now = 0
    /\ ingest = NoIngest
    /\ redisState = "closed"
    /\ answerModel = FALSE
    /\ nreq = 0
    /\ rq = [p \in Procs |-> Idle]
    /\ serial = [s \in SessionIds |-> NoTurns]
    /\ unit = NoUnit
    /\ \E env \in Envs :
          boot = [phase |-> "init", env |-> env, qdrant |-> FALSE,
                  gemini |-> FALSE, code |-> NoExit]
    /\ page = NoPage

NextBoot ==
    \/ Start
    \/ \E ok \in BOOLEAN : InitClientsReply(ok)
    \/ \E p \in Procs : QueryWhenListening(p, <<"a">>)
    \/ \E p \in Procs : RagLookup(p)
    \/ \E p \in Procs, ok \in BOOLEAN : EmbedWithKey(p, ok)
    \/ \E p \in Procs : Search(p, TRUE, <<Point1>>)
    \/ \E p \in Procs : Generate(p, "text", <<"x">>)
    \/ \E p \in Procs : RagStore(p)

SpecBoot == InitBoot /\ [][NextBoot]_vars

(* queries whose embedding may have another length than the collection's;  *)
(* what the index replies to such a vector is not decided by this code     *)
NextDim ==
    \/ \E p \in Procs, q \in RagQueries : HandleQuery(p, q)
    \/ \E p \in Procs : RagLookup(p)
    \/ \E p \in Procs : Embed(p, TRUE)
    \/ \E p \in Procs : EmbedOther(p)
    \/ \E p \in Procs, ok \in BOOLEAN, points \in SearchResults : Search(p, ok, points)
    \/ \E p \in Procs : Generate(p, "text", <<"x">>)
    \/ \E p \in Procs : RagStore(p)

SpecDim == InitChat /\ [][NextDim]_vars

(* the chat page from its mount: the session id is in place and the       *)
(* history of the session, empty or one earlier turn, is being fetched     *)
StoredHistories ==
    {<<>>, <<Message("user", <<"a">>), Message("assistant", <<"x", "y">>)>>}

InitPage ==
    /\ redis = <<>>
    /\ now = 0
    /\ ingest = NoIngest
    /\ redisState = "ready"
    /\ answerModel = TRUE
    /\ nreq = 0
    /\ rq = [p \in Procs |-> Idle]
    /\ serial = [s \in SessionIds |-> NoTurns]
    /\ unit = NoUnit
    /\ boot = Listening
    /\ \E h \in StoredHistories :
          page = [NoPage EXCEPT !.sessionId = <<"1">>,
                                !.loads = << <<"1">> >>,
                                !.backend[<<"1">>] = h]

NextPage ==
    \/ \E text \in PageInputs : ChangeInput(text)
    \/ HandleSend
    \/ \E i \in 1..MaxSends, o \in SendOutcomes, a \in PageAnswers : SendReply(i, o, a)
    \/ \E j \in 1..MaxSends : typeNextChar(j)
    \/ HandleResetSession
    \/ \E k \in 1..MaxResets, c \in BOOLEAN, id \in PageIds : ResetReply(k, c, id)
    \/ \E ok \in BOOLEAN : FetchHistoryReply(1, ok)

SpecPage == InitPage /\ [][NextPage]_vars

(* the chat API while Redis fails and holds values it was not given by    *)
(* saveSessionHistory                                                      *)
FaultSessions == {<<"1">>, <<" ">>}

FaultMessages == {<<"a">>, <<" ">>}

NextFault ==
    \/ \E p \in Procs, s \in FaultSessions \cup {<<>>},
          m \in FaultMessages \cup {<<>>} : HandleChat(p, s, m)
    \/ \E p \in Procs, s \in FaultSessions : HandleHistory(p, s)
    \/ \E p \in Procs, s \in FaultSessions : HandleClear(p, s)
    \/ \E p \in Procs : ChatLoad(p)
    \/ \E p \in Procs : ChatSave(p)
    \/ \E p \in Procs : HistoryReply(p)
    \/ \E p \in Procs : ClearReply(p)
    \/ SteadyRagSteps
    \/ RedisFlap
    \/ \E s \in FaultSessions, v \in ForeignValues : ForeignWrite(s, v)

SpecFault == InitChat /\ [][NextFault]_vars

(* the chat API of a server started without GEMINI_API_KEY: initGemini     *)
(* leaves answerModel null                                                 *)
InitNoModel ==
    /\ redis = <<>>
    /\ now = 0
    /\ ingest = NoIngest
    /\ redisState = "ready"
    /\ answerModel = FALSE
    /\ nreq = 0
    /\ rq = [p \in Procs |-> Idle]
    /\ serial = [s \in SessionIds |-> NoTurns]
    /\ boot = [Listening EXCEPT !.env.GEMINI_API_KEY = FALSE]
    /\ page = NoPage
    /\ unit = NoUnit

NextNoModel ==
    \/ \E p \in Procs, m \in ChatMessages : TurnOfFew(p, ChatSession, m)
    \/ \E p \in Procs : ChatLoad(p)
    \/ \E p \in Procs : ChatSave(p)
    \/ \E p \in Procs : RagLookup(p)
    \/ \E p \in Procs, ok \in BOOLEAN : Embed(p, ok)
    \/ \E p \in Procs, ok \in BOOLEAN, points \in SearchResults : Search(p, ok, points)
    \/ \E p \in Procs : RagStore(p)
    \/ Tick

SpecNoModel == InitNoModel /\ [][NextNoModel]_vars

(* ------------------------------ ingest.js ----------------------------- *)
(* the ids of the points built so far                                      *)
PointIds(points) == {points[i] : i \in 1..Len(points)}

IngestStep(g) ==
    /\ ingest' = g
    /\ UNCHANGED <<redis, now, redisState, answerModel, nreq, rq, serial, unit,
                   boot, page>>

(* the script is run: it exits with 1 without JINA_API_KEY or without      *)
(* news_articles.json, otherwise main() sends recreateCollection           *)
IngestStart(hasKey, hasFile) ==
    /\ ingest.pc = "idle"
    /\ IngestStep(IF hasKey /\ hasFile THEN [ingest EXCEPT !.pc = "recreate"]
                  ELSE [ingest EXCEPT !.pc = "exited", !.code = 1])

(* the reply of qdrant.recreateCollection: the collection is new and       *)
(* empty; when the call rejects, main() rejects with nothing to catch it   *)
(* and the old collection is either still there or already deleted         *)
RecreateReply(ok, deleted) ==
    /\ ingest.pc = "recreate"
    /\ ok => deleted
    /\ IngestStep([ingest EXCEPT
            !.collection = IF deleted THEN {} ELSE @,
            !.pc = IF ~ok THEN "exited"
                   ELSE IF ingest.articles = 0 THEN "upsert" ELSE "embed",
            !.code = IF ok THEN @ ELSE 1])

EmbedArticleReplyUploadsEach(ok) ==
    /\ ingest.pc = "embed"
    /\ LET a == Len(ingest.points) + 1 IN
       IngestStep(IF ~ok THEN [ingest EXCEPT !.pc = "exited", !.code = 1]
                  ELSE [ingest EXCEPT
                            !.points = Append(@, a),
                            !.collection = @ \cup {a},
                            !.pc = IF a = ingest.articles THEN "upsert" ELSE "embed"])

(* the reply of embed(a.text) for the next article: its point is pushed,   *)
(* and after the last article upsert is sent; when the call rejects,       *)
(* main() rejects and the process ends                                     *)
EmbedArticleReply(ok) ==
    /\ ingest.pc = "embed"
    /\ LET a == Len(ingest.points) + 1 IN
       IngestStep(IF ~ok THEN [ingest EXCEPT !.pc = "exited", !.code = 1]
                  ELSE [ingest EXCEPT
                            !.points = Append(@, a),
                            !.pc = IF a = ingest.articles THEN "upsert" ELSE "embed"])

(* the reply of qdrant.upsert with all the points: process.exit(0); when   *)
(* the call rejects the request was stored or it was not                   *)
UpsertReply(ok, stored) ==
    /\ ingest.pc = "upsert"
    /\ ok => stored
    /\ IngestStep([ingest EXCEPT
            !.collection = IF stored THEN @ \cup PointIds(ingest.points) ELSE @,
            !.upserts = IF stored THEN @ + 1 ELSE @,
            !.pc = "exited",
            !.code = IF ok THEN 0 ELSE 1])

(* ARTICLES as read from news_articles.json, and the points an earlier     *)
(* run left in the collection                                              *)
ArticleCounts == 0..MaxArticles

PreviousContents == SUBSET (1..(MaxArticles + 1))

InitIngest ==
    /\ redis = <<>>
    /\ now = 0
    /\ redisState = "closed"
    /\ answerModel = FALSE
    /\ nreq = 0
    /\ rq = [p \in Procs |-> Idle]
    /\ serial = [s \in SessionIds |-> NoTurns]
    /\ unit = NoUnit
    /\ boot = Listening
    /\ page = NoPage
    /\ \E n \in ArticleCounts, old \in PreviousContents :
          ingest = [NoIngest EXCEPT !.articles = n, !.previous = old,
                                    !.collection = old]

NextIngest ==
    \/ \E hasKey \in BOOLEAN, hasFile \in BOOLEAN : IngestStart(hasKey, hasFile)
    \/ \E ok \in BOOLEAN, deleted \in BOOLEAN : RecreateReply(ok, deleted)
    \/ \E ok \in BOOLEAN : EmbedArticleReply(ok)
    \/ \E ok \in BOOLEAN, stored \in BOOLEAN : UpsertReply(ok, stored)

SpecIngest == InitIngest /\ [][NextIngest]_vars

(* ------------------------------ properties ---------------------------- *)
(* a stored history without the turn numbers that tell its messages apart  *)
Contents(h) == [i \in 1..Len(h) |-> Message(h[i].role, h[i].content)]

TurnsIn(h) == {h[i].turn : i \in 1..Len(h)}

RECURSIVE Transcript(_)
Transcript(log) ==
    IF log = <<>> THEN <<>>
    ELSE <<Message("user", log[1][1]), Message("assistant", log[1][2])>>
         \o Transcript(Tail(log))

Moved(p) == rq'[p] # rq[p]

RagPcs == {"getCached", "embed", "search", "generate", "setCached"}

Answered(p, kind) ==
    /\ rq[p].kind = kind
    /\ rq[p].pc = "done"
    /\ rq[p].status = 200

(* C1: while the turns of a session are served one at a time, none fails   *)
(* and the history has not expired, the stored history is                  *)
(* user:m1, assistant:a1, user:m2, assistant:a2, ... of the turns served   *)
(* (since the last clear, if any), in the order they were served, ai being *)
(* the answer returned by turn i                                           *)
C1_SerialTurnsAppendInOrder ==
    \A s \in SessionIds :
        serial[s].ok => Contents(getSessionHistory(s)) = Transcript(serial[s].log)

C1_Witness ==
    /\ serial[ChatSession].ok
    /\ Len(serial[ChatSession].log) = 3
    /\ serial[ChatSession].log[1][1] # serial[ChatSession].log[2][1]
    /\ Len(getSessionHistory(ChatSession)) = 6

(* C2: a save replaces the stored history by the saving turn's own list:   *)
(* every turn stored since that turn loaded is gone from the store after   *)
(* the save, although its call returned successfully                       *)
C2_LastSaveOverwrites ==
    [][\A p \in Procs :
          (rq[p].pc = "save" /\ rq'[p].pc = "done" /\ rq'[p].status = 200) =>
              /\ getSessionHistory(rq[p].sessionId)' = rq[p].history
              /\ \A t \in TurnsIn(getSessionHistory(rq[p].sessionId))
                            \ TurnsIn(rq[p].history) :
                    t \notin TurnsIn(getSessionHistory(rq[p].sessionId)')]_vars

C2_Witness ==
    /\ nreq = 2
    /\ Answered(1, "chat") /\ Answered(2, "chat")
    /\ rq[1].sessionId = rq[2].sessionId
    /\ Len(rq[1].body.history) = 2 /\ Len(rq[2].body.history) = 2
    /\ Cardinality(TurnsIn(getSessionHistory(rq[1].sessionId))) = 1

(* C3: when runRagQuery(q) returns after writing the cache, a lookup of q  *)
(* finds an entry with the answer and sources it returned; a lookup that   *)
(* finds an unexpired entry returns that entry's answer and sources        *)
(* unmodified with cached = true; and of two calls for q that are the only *)
(* requests made, a second that is answered from the cache repeats the     *)
(* answer and sources of the first                                         *)
C3_SecondCallRepeatsFirst ==
    \A p \in Procs, q \in Procs :
        (/\ nreq = 2
         /\ Answered(p, "query") /\ Answered(q, "query")
         /\ rq[p].userMessage = rq[q].userMessage
         /\ rq[p].turn < rq[q].turn
         /\ ~rq[p].body.cached
         /\ rq[q].body.cached) =>
            /\ rq[q].body.answer = rq[p].body.answer
            /\ rq[q].body.sources = rq[p].body.sources

C3_HitReturnsWhatWasReturned ==
    [][/\ C3_SecondCallRepeatsFirst'
       /\ \A p \in Procs :
          /\ (rq[p].kind = "query" /\ rq[p].pc = "setCached" /\ rq'[p].status = 200) =>
                /\ getCachedHit(rq[p].userMessage)'
                /\ getCached(rq[p].userMessage)'.answer = rq'[p].body.answer
                /\ getCached(rq[p].userMessage)'.sources = rq'[p].body.sources
          /\ (rq[p].kind = "query" /\ rq[p].pc = "getCached" /\ Moved(p)
                /\ redisState = "ready" /\ getCachedHit(rq[p].userMessage)) =>
                /\ rq'[p].status = 200
                /\ rq'[p].body.cached = TRUE
                /\ rq'[p].body.answer = getCached(rq[p].userMessage).answer
                /\ rq'[p].body.sources = getCached(rq[p].userMessage).sources]_vars

C3_Witness ==
    \E p \in Procs, q \in Procs :
        /\ Answered(p, "query") /\ Answered(q, "query")
        /\ rq[p].turn < rq[q].turn
        /\ rq[p].userMessage = rq[q].userMessage
        /\ ~rq[p].body.cached /\ rq[q].body.cached
        /\ rq[q].body.answer = rq[p].body.answer
        /\ rq[q].body.sources = rq[p].body.sources
        /\ rq[q].body.sources # <<>>

(* C4: an unexpired entry written by setCached(q1, e) is what getCached(q2) *)
(* returns exactly when q1 and q2 are equal after trimming surrounding     *)
(* whitespace and lowercasing                                              *)
C4_SameKeyIffSameNormalForm ==
    (unit.pc = "done" /\ unit.getAt < unit.setAt + CACHE_TTL_SECONDS) =>
        /\ unit.hit <=> (ToLowerCase(Trim(unit.q1)) = ToLowerCase(Trim(unit.q2)))
        /\ unit.hit => unit.value = unit.data

C4_Witness ==
    /\ unit.pc = "done"
    /\ unit.q1 # unit.q2
    /\ unit.hit
    /\ unit.value = unit.data

(* C5: the cache is consulted before any collaborator is called, and a     *)
(* lookup that finds an unexpired entry returns at once: no embedding,     *)
(* search or generation call is made for that query                        *)
C5_HitCallsNoCollaborator ==
    \A p \in Procs :
        /\ rq[p].pc = "getCached" => rq[p].calls = <<>>
        /\ (Answered(p, "query") /\ rq[p].body.cached) => rq[p].calls = <<>>

C5_Witness ==
    \E p \in Procs :
        /\ Answered(p, "query")
        /\ rq[p].body.cached
        /\ rq[p].calls = <<>>

(* C6: a lookup made CACHE_TTL_SECONDS or more after the entry was written *)
(* misses and starts the embedding call, a lookup made earlier hits and    *)
(* calls nothing; a query answered with cached = false has made its        *)
(* embedding, search and (with a generator configured) generation calls    *)
C6_EntryGoneAfterTTL ==
    [][\A p \in Procs :
          /\ (rq[p].pc = "getCached" /\ Moved(p) /\ redisState = "ready"
                /\ GetCachedKey(rq[p].userMessage) \in DOMAIN redis) =>
                IF now >= redis[GetCachedKey(rq[p].userMessage)].at + CACHE_TTL_SECONDS
                THEN rq'[p].pc = "embed" /\ rq'[p].calls = <<"embed">>
                ELSE rq'[p].pc \in {"done", "save"} /\ rq'[p].calls = <<>>
                     /\ rq'[p].status \in {0, 200}
          /\ (rq'[p].kind = "query" /\ rq'[p].status = 200 /\ ~rq'[p].body.cached) =>
                rq'[p].calls = IF answerModel THEN <<"embed", "search", "generate">>
                               ELSE <<"embed", "search">>]_vars

C6_Witness ==
    \E p \in Procs, q \in Procs :
        /\ Answered(p, "query") /\ ~rq[p].body.cached
        /\ rq[q].kind = "query" /\ rq[q].pc = "embed" /\ rq[q].turn > rq[p].turn
        /\ redisState = "ready"
        /\ GetCachedKey(rq[q].userMessage) \in DOMAIN redis
        /\ now >= redis[GetCachedKey(rq[q].userMessage)].at + CACHE_TTL_SECONDS

(* C7: a request whose embedding, search or generation call failed is      *)
(* answered with an error: it is not carried on to the cache write         *)
C7_CollaboratorFailurePropagates ==
    \A p \in Procs :
        rq[p].fault \in {"embedTextWithJina", "searchQdrant", "generateAnswerWithGemini"}
            => rq[p].pc = "done" /\ rq[p].status = 500

(* C8: a step of runRagQuery inside a turn writes nothing to the session's *)
(* key, so when it fails the stored history and its expiry are what they   *)
(* were, and the turn is answered 500                                      *)
C8_FailedTurnPersistsNothing ==
    [][\A p \in Procs :
          (rq[p].kind = "chat" /\ rq[p].pc \in RagPcs /\ Moved(p)) =>
              /\ (sessionKey(rq[p].sessionId) \in DOMAIN redis')
                    = (sessionKey(rq[p].sessionId) \in DOMAIN redis)
              /\ sessionKey(rq[p].sessionId) \in DOMAIN redis =>
                    redis'[sessionKey(rq[p].sessionId)]
                        = redis[sessionKey(rq[p].sessionId)]
              /\ rq'[p].fail # "none" =>
                    rq'[p].pc = "done" /\ rq'[p].status = 500]_vars

C8_Witness ==
    \E p \in Procs :
        /\ rq[p].kind = "chat" /\ rq[p].pc = "done" /\ rq[p].status = 500
        /\ rq[p].fail \in {"embedTextWithJina", "searchQdrant",
                           "generateAnswerWithGemini"}
        /\ Len(getSessionHistory(rq[p].sessionId)) = 2

(* C9: a fault of the cache lookup never reaches the caller of runRagQuery *)
C9_LookupFaultAbsorbed ==
    \A p \in Procs : rq[p].fault = "getCached" => rq[p].fail = "none"

(* C10: a failed cache write is absorbed: the request is not failed by it  *)
(* and is answered successfully                                            *)
C10_WriteFaultAbsorbed ==
    \A p \in Procs :
        rq[p].fault = "setCached" =>
            /\ rq[p].fail = "none"
            /\ rq[p].pc = "done" => rq[p].status = 200

StoreFaults == {"getSessionHistory", "saveSessionHistory", "clearSessionHistory"}

(* C11: a fault of the session store never reaches the caller: the request *)
(* it happens to is not failed by it and is answered 200                   *)
C11_StoreFaultAbsorbed ==
    \A p \in Procs :
        rq[p].fault \in StoreFaults =>
            /\ rq[p].fail = "none"
            /\ rq[p].pc = "done" => rq[p].status = 200

(* C12: getSessionHistory gives the empty list for a key that is absent,   *)
(* expired, not JSON, or JSON that is not an array; the history endpoint   *)
(* answers such a session with a list and a turn on it is not failed by    *)
(* the value loaded                                                        *)
C12_MalformedHistoryReadsEmpty ==
    /\ \A s \in SessionIds :
          (\/ ~Present(sessionKey(s))
           \/ ParseFails(redis[sessionKey(s)].value)
           \/ ~IsArray(JSONParse(redis[sessionKey(s)].value)))
              => getSessionHistory(s) = <<>>
    /\ \A p \in Procs :
          /\ Answered(p, "history") => IsArray(rq[p].body.history)
          /\ rq[p].fail # "history.push"

C14_WriteResetsTTL ==
    [][\A p \in Procs :
          LET key == sessionKey(rq[p].sessionId) IN
          /\ (rq[p].pc = "save" /\ rq'[p].status = 200) =>
                /\ redis'[key].at = now
                /\ redis'[key].ttl = SESSION_TTL
          /\ (rq[p].pc = "load" /\ Moved(p) /\ key \in DOMAIN redis) =>
                IF now < redis[key].at + SESSION_TTL
                THEN SubSeq(rq'[p].history, 1, Len(rq'[p].history) - 1)
                        = JSONParse(redis[key].value)
                ELSE /\ getSessionHistory(rq[p].sessionId) = <<>>
                     /\ Len(rq'[p].history) = 1]_vars

C14_Witness ==
    /\ now >= SESSION_TTL
    /\ Present(sessionKey(ChatSession))
    /\ redis[sessionKey(ChatSession)].at > 0
    /\ Len(getSessionHistory(ChatSession)) >= 4
    /\ \E p \in Procs : rq[p].pc = "getCached" /\ Len(rq[p].history) = 5

(* C15 as stated: the first turn to read the history after a completed     *)
(* clear returns a history made of its own two messages only               *)
C15_NextTurnAfterClearIsFresh ==
    \A p \in Procs :
        (/\ Answered(p, "chat")
         /\ serial[rq[p].sessionId].cleared
         /\ serial[rq[p].sessionId].next = rq[p].turn) =>
            TurnsIn(rq[p].body.history) = {rq[p].turn}

(* C15 amended: a clear that completes leaves getSessionHistory empty; and *)
(* when no turn that had already read the history was in flight at that    *)
(* moment, the first turn to read the history afterwards stores and        *)
(* returns exactly its own user and assistant messages                     *)
C15_ClearStartsFresh ==
    [][\A p \in Procs :
          /\ (rq[p].pc = "clear" /\ rq'[p].status = 200) =>
                getSessionHistory(rq[p].sessionId)' = <<>>
          /\ (/\ rq[p].pc = "save" /\ rq'[p].status = 200
              /\ serial[rq[p].sessionId].cleared
              /\ serial[rq[p].sessionId].quiet
              /\ serial[rq[p].sessionId].next = rq[p].turn) =>
                /\ Contents(rq'[p].body.history)
                      = <<Message("user", rq[p].userMessage),
                          Message("assistant", rq'[p].body.answer)>>
                /\ TurnsIn(rq'[p].body.history) = {rq[p].turn}
                /\ getSessionHistory(rq[p].sessionId)' = rq'[p].body.history]_vars

C15_Witness ==
    \E p \in Procs, q \in Procs :
        /\ Answered(p, "chat") /\ rq[p].turn = 3 /\ rq[p].body.cached
        /\ Answered(q, "clear")
        /\ serial[rq[p].sessionId].cleared
        /\ serial[rq[p].sessionId].quiet
        /\ serial[rq[p].sessionId].next = rq[p].turn
        /\ getSessionHistory(rq[p].sessionId) = rq[p].body.history
        /\ Len(rq[p].body.history) = 2

C17_BlankFieldsRejected ==
    \A p \in Procs :
        (/\ rq[p].kind = "chat"
         /\ Falsy(Trim(rq[p].sessionId)) \/ Falsy(Trim(rq[p].userMessage))) =>
            /\ rq[p].pc = "done"
            /\ rq[p].status = 400
            /\ rq[p].calls = <<>>

SessionKeyInjective ==
    \A a \in Strings \cup SessionIds, b \in Strings \cup SessionIds :
        sessionKey(a) = sessionKey(b) => a = b

(* C18: different session ids have different keys, and a step of a turn,   *)
(* history read or clear of one session leaves the key of every other      *)
(* session as it was: present or absent, its value and its expiry          *)
C18_OtherSessionsUntouched ==
    [][/\ SessionKeyInjective
       /\ \A p \in Procs :
             Moved(p) =>
                 \A s \in SessionIds \ {rq'[p].sessionId} :
                     /\ (sessionKey(s) \in DOMAIN redis')
                           = (sessionKey(s) \in DOMAIN redis)
                     /\ sessionKey(s) \in DOMAIN redis =>
                           redis'[sessionKey(s)] = redis[sessionKey(s)]
                     /\ getSessionHistory(s)' = getSessionHistory(s)]_vars

C18_Witness ==
    /\ nreq = 3
    /\ Answered(1, "clear") /\ rq[1].sessionId = <<"2">>
    /\ Answered(2, "chat") /\ rq[2].sessionId = <<"2">>
    /\ getSessionHistory(<<"2">>) = <<>>
    /\ Len(getSessionHistory(<<"1">>)) = 2
    /\ TurnsIn(getSessionHistory(<<"1">>)) = {1}

(* C19: the cache entry of a turn is stored and looked up under the key of *)
(* the normalized query alone: a turn caches its result where any session  *)
(* finds it, a lookup that finds an unexpired entry returns it with        *)
(* cached = true whichever session wrote it, and of two turns of different *)
(* sessions that are the only requests made, a second that is answered     *)
(* from the cache has the answer and sources of the first                  *)
C19_SecondSessionRepeatsFirst ==
    \A p \in Procs, q \in Procs :
        (/\ nreq = 2
         /\ Answered(p, "chat") /\ Answered(q, "chat")
         /\ rq[p].sessionId # rq[q].sessionId
         /\ GetCachedKey(rq[p].userMessage) = GetCachedKey(rq[q].userMessage)
         /\ rq[p].turn < rq[q].turn
         /\ ~rq[p].body.cached
         /\ rq[q].body.cached) =>
            /\ rq[q].body.answer = rq[p].body.answer
            /\ rq[q].body.sources = rq[p].body.sources

C19_CacheSharedAcrossSessions ==
    [][/\ C19_SecondSessionRepeatsFirst'
       /\ \A p \in Procs :
          /\ (rq[p].kind = "chat" /\ rq[p].pc = "setCached" /\ rq'[p].pc = "save") =>
                \A m \in ShareMessages :
                    GetCachedKey(m) = GetCachedKey(rq[p].userMessage) =>
                        /\ getCachedHit(m)'
                        /\ getCached(m)'.answer = rq'[p].payload.answer
                        /\ getCached(m)'.sources = rq'[p].payload.sources
          /\ (rq[p].kind = "chat" /\ rq[p].pc = "getCached" /\ Moved(p)
                /\ getCachedHit(rq[p].userMessage)) =>
                /\ rq'[p].pc = "save"
                /\ rq'[p].payload = CacheHitResult(getCached(rq[p].userMessage))]_vars

C19_Witness ==
    \E p \in Procs, q \in Procs :
        /\ nreq = 2
        /\ Answered(p, "chat") /\ Answered(q, "chat")
        /\ rq[p].sessionId # rq[q].sessionId
        /\ rq[p].userMessage # rq[q].userMessage
        /\ rq[p].turn < rq[q].turn
        /\ ~rq[p].body.cached /\ rq[q].body.cached
        /\ rq[q].body.answer = rq[p].body.answer
        /\ rq[q].body.sources = rq[p].body.sources
        /\ Len(rq[q].body.history) = 2

(* C20: two turns in flight that carry the same userMessage, have made the *)
(* same calls and received the same search result have called their        *)
(* collaborators with the same arguments, and when neither was answered    *)
(* from the cache and the generator gave them the same text they return    *)
(* the same answer, sources and cached flag, whatever histories they       *)
(* loaded                                                                  *)
C20_PipelineIgnoresHistory ==
    \A p \in Procs, q \in Procs :
        (/\ rq[p].kind = "chat" /\ rq[q].kind = "chat"
         /\ rq[p].pc \in Loaded /\ rq[q].pc \in Loaded
         /\ rq[p].userMessage = rq[q].userMessage
         /\ rq[p].calls = rq[q].calls
         /\ rq[p].points = rq[q].points) =>
            /\ rq[p].args = rq[q].args
            /\ (/\ rq[p].pc = "save" /\ rq[q].pc = "save"
                /\ ~rq[p].payload.cached /\ ~rq[q].payload.cached
                /\ rq[p].payload.answer = rq[q].payload.answer) =>
                   rq[p].payload = rq[q].payload

C20_Witness ==
    \E p \in Procs, q \in Procs :
        /\ rq[p].kind = "chat" /\ rq[q].kind = "chat"
        /\ rq[p].pc = "save" /\ rq[q].pc = "save"
        /\ rq[p].userMessage = rq[q].userMessage
        /\ ~rq[p].payload.cached /\ ~rq[q].payload.cached
        /\ Len(rq[p].history) = 2 /\ Len(rq[q].history) = 4
        /\ rq[p].args = rq[q].args
        /\ Len(rq[p].args) = 3
        /\ rq[p].payload = rq[q].payload

(* what runRagQuery has in hand for its caller: the payload it built, or   *)
(* the body of the answer once queryRag has sent it                        *)
ResultOf(r) == IF r.pc = "done" THEN r.body ELSE r.payload

(* C21: when searchQdrant replies with no points the call does not fail    *)
(* and does not return: generateAnswerWithGemini is called with the query  *)
(* and the context "No relevant articles found." (without a model it       *)
(* returns its fixed message at once); the text it returns is the answer   *)
(* of a payload with no sources and cached = false, and that payload is    *)
(* what the call returns once the cache write has replied                  *)
C21_EmptySearchStillGenerates ==
    [][\A p \in Procs :
          /\ Search(p, TRUE, <<>>) =>
                /\ rq'[p].fail = "none"
                /\ IF answerModel
                   THEN /\ rq'[p].pc = "generate"
                        /\ rq'[p].points = <<>>
                        /\ rq'[p].calls = Append(rq[p].calls, "generate")
                        /\ rq'[p].args[Len(rq'[p].args)] =
                              [query |-> rq[p].userMessage,
                               context |-> << <<"No relevant articles found.">> >>]
                   ELSE /\ rq'[p].pc \in {"setCached", "done"}
                        /\ ResultOf(rq'[p]) =
                              [answer |-> FallbackAnswer, sources |-> <<>>,
                               cached |-> FALSE]
          /\ \A t \in GeneratedAnswers :
                (rq[p].points = <<>> /\ Generate(p, "text", t)) =>
                    /\ rq'[p].pc \in {"setCached", "done"}
                    /\ rq'[p].fail = "none"
                    /\ ResultOf(rq'[p]) =
                          [answer |-> t, sources |-> <<>>, cached |-> FALSE]
          /\ (/\ rq[p].kind = "query" /\ rq[p].pc = "setCached"
              /\ Moved(p) /\ rq'[p].fail = "none") =>
                    /\ rq'[p].pc = "done" /\ rq'[p].status = 200
                    /\ rq'[p].body = rq[p].payload]_vars

C21_Witness ==
    \E p \in Procs :
        /\ Answered(p, "query")
        /\ rq[p].calls = <<"embed", "search", "generate">>
        /\ rq[p].args[3].context = << <<"No relevant articles found.">> >>
        /\ rq[p].body.answer \in GeneratedAnswers
        /\ rq[p].body.sources = <<>>
        /\ ~rq[p].body.cached
        /\ Present(GetCachedKey(rq[p].userMessage))

(* C22: on a cache miss the collaborators are called in the order          *)
(* embedding, search, generation, each at most once; once one of them has  *)
(* failed no other is called; the cache write is awaited only after the    *)
(* generation has succeeded (or, without a model, after the fixed message  *)
(* was returned), and the result is returned only after the write          *)
C22_PipelineInOrder ==
    \A p \in Procs :
        /\ \E n \in 0..3 : rq[p].calls = SubSeq(<<"embed", "search", "generate">>, 1, n)
        /\ rq[p].fault = "embedTextWithJina" => rq[p].calls = <<"embed">>
        /\ rq[p].fault = "searchQdrant" => rq[p].calls = <<"embed", "search">>
        /\ rq[p].pc = "setCached" =>
              /\ rq[p].fault = "none"
              /\ rq[p].calls = IF answerModel
                               THEN <<"embed", "search", "generate">>
                               ELSE <<"embed", "search">>
        /\ (Answered(p, "query") /\ ~rq[p].body.cached /\ isOpen) =>
              /\ rq[p].fault = "none"
              /\ GetCachedKey(rq[p].userMessage) \in DOMAIN redis

(* C23: every POST /api/chat request that is being served is eventually    *)
(* answered, whether or not the collaborator it waits for ever replies     *)
C23_EveryChatAnswered ==
    \A p \in Procs : (rq[p].pc \in Awaits) ~> (rq[p].pc = "done")

(* C24: a process started without GEMINI_API_KEY, JINA_API_KEY, QDRANT_URL *)
(* or REDIS_URL never listens                                              *)
C24_MissingConfigNeverListens ==
    (\/ ~boot.env.GEMINI_API_KEY \/ ~boot.env.JINA_API_KEY
     \/ ~boot.env.QDRANT_URL \/ ~boot.env.REDIS_URL)
        => boot.phase # "listening"

(* C25: an embedding whose length is not the collection's is caught by     *)
(* runRagQuery: it is not searched with, no answer is generated or cached  *)
(* for it, and the request is answered with an error                       *)
C25_DimensionMismatchRaised ==
    \A p \in Procs :
        rq[p].vector \notin {0, VECTOR_SIZE} =>
            /\ rq[p].calls = <<"embed">>
            /\ rq[p].pc = "done"
            /\ rq[p].status = 500

(* C26: a turn holds the list it loaded followed by its user message from  *)
(* the load until runRagQuery returns, and that list followed by the       *)
(* assistant message with the answer from then on; when the save has       *)
(* replied the turn is answered {sessionId, answer, history, sources,      *)
(* cached} with that list as history, and that list is what was saved      *)
C26_ReturnsLoadedPlusTurn ==
    [][\A p \in Procs :
          LET r == rq[p]
              key == sessionKey(r.sessionId)
              loaded == IF Present(key) /\ redis[key].value.json
                        THEN redis[key].value.val ELSE <<>>
          IN
          /\ (r.pc = "load" /\ Moved(p) /\ rq'[p].fail = "none") =>
                Contents(rq'[p].history) =
                    Contents(loaded) \o <<Message("user", r.userMessage)>>
          /\ (r.kind = "chat" /\ r.pc \in RagPcs /\ rq'[p].pc \in RagPcs) =>
                rq'[p].history = r.history
          /\ (r.kind = "chat" /\ r.pc \in RagPcs /\ rq'[p].pc = "save") =>
                Contents(rq'[p].history) =
                    Contents(r.history) \o
                        <<Message("assistant", rq'[p].payload.answer)>>
          /\ (r.pc = "save" /\ Moved(p) /\ rq'[p].status = 200) =>
                /\ rq'[p].body =
                      [sessionId |-> r.sessionId, answer |-> r.payload.answer,
                       history |-> r.history, sources |-> r.payload.sources,
                       cached |-> r.payload.cached]
                /\ redis'[key].value = JSONStringify(rq'[p].body.history)]_vars

C26_Witness ==
    \E p \in Procs :
        /\ Answered(p, "chat")
        /\ Len(rq[p].body.history) = 4
        /\ rq[p].body.history[3].content = rq[p].userMessage
        /\ rq[p].body.history[4].content = rq[p].body.answer
        /\ getSessionHistory(rq[p].sessionId) = rq[p].body.history

(* C27: a send takes the displayed list as previous and shows it with the  *)
(* user message appended; when the send fails, by a response that is not   *)
(* OK or by a network error, the displayed list is previous again, an      *)
(* error message is shown and loading is off                               *)
C27_FailedSendRestoresList ==
    [][/\ HandleSend =>
            /\ page'.sends[Len(page'.sends)].previous = page.messages
            /\ page'.messages =
                  Append(page.messages, Message("user", page.input))
       /\ \A i \in 1..Len(page.sends), o \in {"notOk", "networkError"} :
            SendReply(i, o, <<>>) =>
                /\ page'.messages = page.sends[i].previous
                /\ page'.error # ""
                /\ ~page'.loading]_vars

C27_Witness ==
    /\ page.error = "Network error."
    /\ ~page.loading
    /\ page.sends = <<>>
    /\ page.nsend = 2
    /\ page.typing = <<>>
    /\ Len(page.messages) = 2
    /\ page.messages = page.backend[page.sessionId]

(* C28: from the end of a Reset Session until the next send the session    *)
(* that was left is cleared on the backend and the displayed list is empty *)
C28_ResetLeavesNothingOld ==
    page.reset # "none" =>
        /\ page.reset = "cleared"
        /\ page.messages = <<>>

C30_TypingEndsWithHistory ==
    [][/\ \A i \in 1..Len(page.sends), a \in PageAnswers :
            SendReply(i, "ok", a) =>
                IF a = <<>>
                THEN /\ page'.typing = page.typing
                     /\ page'.messages = page'.backend[page.sends[i].sessionId]
                ELSE LET t == page'.typing[Len(page'.typing)] IN
                     /\ t.fullText = a
                     /\ t.fullHistory = page'.backend[page.sends[i].sessionId]
                     /\ t.fullHistory[Len(t.fullHistory)] = Message("assistant", a)
                     /\ t.index = 1 /\ t.ticks = 0
       /\ \A j \in 1..Len(page.typing) :
            typeNextChar(j) =>
                LET t == page.typing[j] IN
                /\ t.ticks = t.index - 1
                /\ t.ticks < Len(t.fullText)
                /\ IF t.ticks + 1 < Len(t.fullText)
                   THEN /\ page'.messages =
                             Append(t.optimistic,
                                 Message("assistant",
                                         SubSeq(t.fullText, 1, t.ticks + 2)))
                        /\ Len(page'.typing) = Len(page.typing)
                   ELSE /\ page'.messages = t.fullHistory
                        /\ page'.ticks = Len(t.fullText)
                        /\ Len(page'.typing) = Len(page.typing) - 1]_vars

C30_Witness ==
    /\ page.ticks = 2
    /\ page.typing = <<>>
    /\ page.nsend = 1
    /\ page.reset = "none"
    /\ Len(page.messages) = 4
    /\ page.messages[4] = Message("assistant", <<"x", "y">>)
    /\ page.messages = page.backend[page.sessionId]

(* a list that begins with the messages of another                        *)
StartsWith(list, head) ==
    /\ Len(list) >= Len(head)
    /\ SubSeq(list, 1, Len(head)) = head

(* C31: a tick of a typing animation leaves in the displayed list the      *)
(* optimistic list of a send made after the animation began, and the list  *)
(* of a reply that arrived after it                                        *)
C31_TickKeepsLaterMessages ==
    [][\A j \in 1..Len(page.typing) :
          typeNextChar(j) =>
              /\ \A i \in 1..Len(page.sends) :
                    StartsWith(page.messages, page.sends[i].optimistic) =>
                        StartsWith(page'.messages, page.sends[i].optimistic)
              /\ \A k \in (j + 1)..Len(page.typing) :
                    StartsWith(page.messages, page.typing[k].optimistic) =>
                        StartsWith(page'.messages, page.typing[k].optimistic)]_vars

(* a list of even length whose messages are user, assistant, user, ...     *)
Alternates(h) ==
    /\ Len(h) % 2 = 0
    /\ \A i \in 1..Len(h) :
          h[i].role = IF i % 2 = 1 THEN "user" ELSE "assistant"

(* C32: whatever turns and clears of a session interleave, the value under *)
(* the session's key is the JSON text of an alternating list of even       *)
(* length; the list a turn holds after its load is a stored value of the   *)
(* session (or the empty list) followed by its user message, and the list  *)
(* its save writes is that stored value followed by exactly one user and   *)
(* one assistant message                                                   *)
C32_StoredHistoriesAlternate ==
    [][/\ \A s \in SessionIds :
            sessionKey(s) \in DOMAIN redis' =>
                /\ redis'[sessionKey(s)].value.json
                /\ Alternates(redis'[sessionKey(s)].value.val)
       /\ \A p \in Procs :
            LET r == rq[p]
                key == sessionKey(r.sessionId)
            IN
            /\ (r.pc = "load" /\ rq'[p].pc \in Loaded) =>
                  /\ Len(rq'[p].history) % 2 = 1
                  /\ SubSeq(rq'[p].history, 1, Len(rq'[p].history) - 1)
                        \in {<<>>} \cup {redis[k].value.val : k \in DOMAIN redis \cap {key}}
            /\ (r.pc = "save" /\ Moved(p) /\ rq'[p].status = 200) =>
                  LET h == redis'[key].value.val IN
                  /\ Len(h) >= 2
                  /\ SubSeq(h, 1, Len(h) - 2) =
                        SubSeq(r.history, 1, Len(r.history) - 2)
                  /\ Alternates(SubSeq(h, 1, Len(h) - 2))
                  /\ h[Len(h) - 1].role = "user"
                  /\ h[Len(h)].role = "assistant"]_vars

C32_Witness ==
    /\ serial[ChatSession].cleared
    /\ Len(getSessionHistory(ChatSession)) = 4
    /\ Alternates(getSessionHistory(ChatSession))
    /\ \A p \in Procs : rq[p].pc \in {"idle", "done"}

(* C33: a turn that loaded the history before a clear of its session       *)
(* completed, and saves after it, writes the list it loaded followed by    *)
(* its own two messages: the stored history is then that list, messages    *)
(* from before the clear included                                          *)
C33_TurnInFlightUndoesClear ==
    [][\A p \in Procs :
          LET r == rq[p]
              s == r.sessionId
          IN
          (/\ r.kind = "chat" /\ r.pc = "save"
           /\ serial[s].cleared /\ serial[s].next = 0
           /\ Moved(p) /\ rq'[p].status = 200) =>
              /\ ~serial[s].quiet
              /\ getSessionHistory(s)' = r.history
              /\ \A i \in 1..(Len(r.history) - 2) : r.history[i].turn # r.turn]_vars

C33_Witness ==
    /\ serial[ChatSession].cleared
    /\ serial[ChatSession].next = 0
    /\ ~serial[ChatSession].quiet
    /\ \E p \in Procs :
          /\ Answered(p, "clear")
          /\ rq[p].sessionId = ChatSession
    /\ \E p \in Procs :
          /\ Answered(p, "chat")
          /\ Len(rq[p].body.history) = 4
          /\ getSessionHistory(ChatSession) = rq[p].body.history
          /\ rq[p].body.history[1].turn < rq[p].turn

(* C34: calls of runRagQuery for one cache key are not merged: a lookup    *)
(* that misses starts the embedding call whatever other calls for the key  *)
(* are in flight, and every call that reaches the cache write has made     *)
(* its own collaborator calls and writes its own payload over whatever     *)
(* the key holds, so the last write is the one the cache keeps             *)
C34_ConcurrentCallsNotCoalesced ==
    [][\A p \in Procs :
          LET r == rq[p] IN
          /\ (r.pc = "getCached" /\ Moved(p) /\ redisState = "ready"
                /\ ~getCachedHit(r.userMessage)) =>
                rq'[p].pc = "embed"
          /\ (r.pc = "setCached" /\ Moved(p) /\ redisState = "ready") =>
                /\ r.calls = IF answerModel THEN <<"embed", "search", "generate">>
                             ELSE <<"embed", "search">>
                /\ redis'[SetCachedKey(r.userMessage)] =
                      [value |-> JSONStringify(r.payload), at |-> now,
                       ttl |-> CACHE_TTL_SECONDS]]_vars

C34_Witness ==
    \E p \in Procs, q \in Procs :
        /\ now = 0
    /\ ingest = NoIngest
        /\ Answered(p, "query") /\ ~rq[p].body.cached
        /\ Answered(q, "query") /\ ~rq[q].body.cached
        /\ GetCachedKey(rq[p].userMessage) = GetCachedKey(rq[q].userMessage)
        /\ rq[p].body.answer # rq[q].body.answer
        /\ getCachedHit(rq[p].userMessage)
        /\ getCached(rq[p].userMessage) = rq[q].body

(* C35: the reply of a cache lookup, hit or miss, leaves every key, value, *)
(* write time and time to live as it was; an entry changes only at a cache *)
(* write, and it is present exactly while less than CACHE_TTL_SECONDS have *)
(* passed since its write, however many lookups it has served              *)
C35_HitLeavesEntryAndTTL ==
    [][/\ \A p \in Procs : (rq[p].pc = "getCached" /\ Moved(p)) => redis' = redis
       /\ \A k \in DOMAIN redis :
             /\ k \in DOMAIN redis'
             /\ redis'[k] # redis[k] =>
                   \E p \in Procs : /\ rq[p].pc = "setCached" /\ Moved(p)
                                    /\ SetCachedKey(rq[p].userMessage) = k
             /\ Present(k) <=> now < redis[k].at + CACHE_TTL_SECONDS]_vars

C35_Witness ==
    \E p \in Procs, q \in Procs :
        LET k == GetCachedKey(rq[p].userMessage) IN
        /\ Answered(p, "query") /\ ~rq[p].body.cached
        /\ Answered(q, "query") /\ rq[q].body.cached
        /\ GetCachedKey(rq[q].userMessage) = k
        /\ k \in DOMAIN redis
        /\ redis[k].value = JSONStringify(rq[p].body)
        /\ redis[k].at = 0
        /\ now = CACHE_TTL_SECONDS
        /\ ~Present(k)

(* C36: a lookup that finds a cache entry whose text does not parse does   *)
(* not fail: the call goes on to the embedding request as on a miss, with  *)
(* nothing answered yet, and when the same call reaches its cache write    *)
(* the key holds the JSON text of the recomputed payload                   *)
C36_MalformedEntryIsMiss ==
    [][\A p \in Procs :
          LET r == rq[p]
              k == GetCachedKey(r.userMessage)
          IN
          (/\ r.kind = "query" /\ Moved(p) /\ redisState = "ready"
           /\ Present(k) /\ ParseFails(redis[k].value)) =>
              /\ r.pc = "getCached" =>
                    /\ rq'[p].pc = "embed" /\ rq'[p].calls = <<"embed">>
                    /\ rq'[p].fail = "none" /\ rq'[p].status = 0
                    /\ redis' = redis
              /\ r.pc = "setCached" =>
                    /\ redis'[k].value = JSONStringify(r.payload)
                    /\ rq'[p].status = 200 /\ rq'[p].body = r.payload
                    /\ ~r.payload.cached]_vars

C36_Witness ==
    \E p \in Procs :
        LET k == GetCachedKey(rq[p].userMessage) IN
        /\ rq[p].kind = "query" /\ rq[p].pc = "setCached"
        /\ rq[p].calls = <<"embed", "search", "generate">>
        /\ redisState = "ready"
        /\ Present(k) /\ ParseFails(redis[k].value)
        /\ \A q \in Procs : q # p => rq[q].pc = "idle"

(* C37: without a generator model a search that has replied is followed    *)
(* by the cache write of the fixed message with cached = false, not by an  *)
(* error; the cache write stores that payload; the turn's save stores the  *)
(* fixed message as the assistant message and answers 200 with it; and a   *)
(* lookup that finds the entry before its time to live is over returns     *)
(* the fixed message with cached = true                                    *)
C37_FallbackAnsweredAndCached ==
    [][\A p \in Procs :
          LET r == rq[p]
              k == GetCachedKey(r.userMessage)
          IN
          /\ (\E points \in SearchResults : Search(p, TRUE, points)) =>
                /\ rq'[p].pc = "setCached" /\ rq'[p].fail = "none"
                /\ rq'[p].payload.answer = FallbackAnswer
                /\ ~rq'[p].payload.cached
                /\ rq'[p].calls = <<"embed", "search">>
          /\ (r.pc = "setCached" /\ Moved(p)) =>
                /\ rq'[p].pc = "save" /\ rq'[p].payload = r.payload
                /\ redis'[k] = [value |-> JSONStringify(r.payload), at |-> now,
                                ttl |-> CACHE_TTL_SECONDS]
          /\ (r.pc = "getCached" /\ Moved(p) /\ k \in DOMAIN redis
                /\ now < redis[k].at + CACHE_TTL_SECONDS) =>
                /\ rq'[p].pc = "save" /\ rq'[p].calls = <<>>
                /\ rq'[p].payload.answer = FallbackAnswer
                /\ rq'[p].payload.cached
          /\ (r.pc = "save" /\ Moved(p)) =>
                LET h == getSessionHistory(r.sessionId)' IN
                /\ rq'[p].status = 200
                /\ rq'[p].body.answer = FallbackAnswer
                /\ rq'[p].body.cached = r.payload.cached
                /\ h = r.history
                /\ Message(h[Len(h)].role, h[Len(h)].content) =
                      Message("assistant", FallbackAnswer)]_vars

C37_Witness ==
    \E p \in Procs, q \in Procs :
        /\ ~answerModel
        /\ Answered(p, "chat") /\ ~rq[p].body.cached
        /\ rq[p].body.answer = FallbackAnswer
        /\ Answered(q, "chat") /\ rq[q].body.cached
        /\ rq[q].body.answer = FallbackAnswer
        /\ rq[q].turn > rq[p].turn
        /\ now < CACHE_TTL_SECONDS
        /\ getCachedHit(rq[p].userMessage)
        /\ getCached(rq[p].userMessage).answer = FallbackAnswer
        /\ Contents(getSessionHistory(ChatSession)) =
              << Message("user", rq[p].userMessage),
                 Message("assistant", FallbackAnswer),
                 Message("user", rq[q].userMessage),
                 Message("assistant", FallbackAnswer) >>

(* C38: the port is opened only by the step in which connect() has         *)
(* resolved, with the Redis client ready and initQdrant and initGemini     *)
(* run; when connect() rejects the process exits with status 1, and a      *)
(* process that has exited stays as it is: it never listens and takes no   *)
(* request                                                                 *)
C38_ListensOnlyAfterClients ==
    [][/\ (boot'.phase = "listening" /\ boot.phase # "listening") =>
             /\ boot.phase = "connecting"
             /\ redisState' = "ready"
             /\ boot'.qdrant /\ boot'.gemini /\ boot'.code = NoExit
       /\ boot.phase = "listening" =>
             /\ boot'.phase = "listening"
             /\ boot.qdrant /\ boot.gemini /\ redisState = "ready"
       /\ InitClientsReply(FALSE) =>
             /\ boot'.phase = "exited" /\ boot'.code = 1
             /\ redisState' # "ready"
       /\ boot.phase # "listening" => rq' = rq /\ nreq' = nreq /\ nreq = 0
       /\ boot.phase = "exited" => boot' = boot]_vars

C38_Witness ==
    /\ boot.phase = "listening"
    /\ boot.qdrant /\ boot.gemini
    /\ redisState = "ready"
    /\ \E p \in Procs : Answered(p, "query")

====
